---- MODULE Spec2Model ----
(***************************************************************************)
(* DynamicEC2Scaler (src/lambda/index.py): the instance-lifecycle          *)
(* controller (process_instance), the batch orchestrator (lambda_handler), *)
(* the savings-plan discount estimator and the price cache, as state       *)
(* machines.  Tags on the instances are the only durable state; the        *)
(* module-level globals live as long as the process.                       *)
(***************************************************************************)
EXTENDS Integers, Sequences, FiniteSets, TLC

(* ------------------------------ bounds --------------------------------- *)
\* wall clock (utcnow) in whole seconds: 0..MaxTime
MaxTime == 2
\* invocations of lambda_handler in one behaviour of Spec
MaxInvocations == 4
\* on-demand rates the catalog may quote, in 1/10000 dollar: 0..MaxRate
MaxRate == 1
\* BATCH_SIZE settings of SpecBatch: 1..MaxBatchSize
MaxBatchSize == 2
\* calls of get_savings_plan_factor by one caller in SpecFactor: 0..MaxCalls
MaxCalls == 2
MaxDate == 6
\* the type confirmation: ticks to a second, the largest timeout_seconds and
\* poll_interval (the defaults 300 and 5 scaled down), the longest describe
TicksPerSecond == 2
PollTimeout == 3
PollInterval == 2
MaxDescribe == 3

(* ---------------------------- program constants ------------------------ *)
Instances == {"i-1", "i-2", "i-3"}
Types == {"m5.large", "t3.medium"}
DEFAULT_DOWNSIZE_TYPE == "t3.medium"
VALID_ACTIONS == {"scaleup", "scaledown"}
DEFAULT_SCHEDULE_NAME == "default"
SCHEDULE_ALL_TOKEN == "all"
\* the defaults of MAX_RETRIES and BACKOFF_SECS
DefaultMaxRetries == 3
DefaultBackoffSecs == 5
ScanRange == 14
\* get_concurrency_limit: the default and the two clamps
DefaultConcurrency == 4
MinConcurrency == 1
MaxConcurrency == 20
\* a factor of 1.0, in 1/10000
FactorScale == 10000

\* dict.get(key) of a key that is not there (None)
\* what a provider call raises: botocore's ClientError, or any other Exception
Errors == {"ClientError", "Exception"}
NoTag == "<absent>"
\* a Python None where a number is expected
None == 0 - 1
\* float("nan"), apart from every amount and from None
NaN == 0 - 2

(* ------------------------------ helpers -------------------------------- *)
Max(a, b) == IF a >= b THEN a ELSE b
Min(a, b) == IF a <= b THEN a ELSE b
SeqToSet(s) == {s[k] : k \in 1..Len(s)}

\* str.strip() on the tag values of the model: " " is the blank string
Strip(v) == IF v = " " THEN "" ELSE v

\* `not value` for an optional string: None and "" are falsy
Falsy(v) == v = NoTag \/ v = ""

\* format_utc: microseconds dropped, ISO text with a trailing Z
FormatUtc(dt) == ToString(dt) \o "Z"

TimeValues == 0..MaxTime

\* parse_timestamp: None for a falsy, blank or non-ISO value
ParseTimestamp(v) ==
    IF Falsy(v) \/ Strip(v) = "" THEN None
    ELSE IF \E n \in TimeValues : FormatUtc(n) = v
         THEN CHOOSE n \in TimeValues : FormatUtc(n) = v
         ELSE None

\* f"{hourly_savings:.4f}": the tag text of an amount in 1/10000 dollar
FormatHourly(h) == ToString(h)

HourlyValues == 0..MaxRate

\* float(hourly_value) in build_actual_savings_snapshot: None stands for ValueError
ParseHourly(v) ==
    IF \E h \in HourlyValues : FormatHourly(h) = v
    THEN CHOOSE h \in HourlyValues : FormatHourly(h) = v
    ELSE None

(* ------------------------------- state --------------------------------- *)
VARIABLES
    \* the provider (EC2): what describe_instances reports
    itype,          \* instance -> InstanceType
    istate,         \* instance -> "running" | "stopped"
    itags,          \* instance -> [pref, down, hourly, up, sched], NoTag when absent
    reservations,   \* the ids describe_instances pages return, in order
    now,            \* datetime.utcnow(), whole seconds
    \* the environment the module reads at import or per call
    FAIL_FAST, BATCH_SIZE, envMaxConcurrent,
    envDiscountMode, envDiscountPercent, coverageData,
    \* module-level globals
    SAVINGS_PLAN_FACTOR, SAVINGS_PLAN_FACTOR_SOURCE,
    \* one invocation of lambda_handler
    hpc,            \* "idle" | "batch" | "abort" | "returned" | "raised"
    event,          \* [action, source, schedule]
    run_start_time,
    instances_to_process,   \* sequence of ids, after de-duplication and the schedule filter
    snap,           \* instance -> instance_data built at enumeration
    skipped_due_to_schedule,
    batch,          \* the ids of the batch whose executor is open, in submission order
    nextIdx,        \* index in instances_to_process of the first id of the next batch
    task,           \* instance -> [pc, savings, actual, pricing_error]: process_instance's frame
    collected,      \* ids whose future the as_completed loop has consumed
    processed_count, savings_records, actual_savings_records,
    summary,        \* {} or {the summary recorded}
    result,         \* what lambda_handler returned or raised
    \* history
    invLeft,        \* invocations still allowed in this behaviour
    prevRun,        \* [action, processed]: the previous invocation
    recorded,       \* instance -> scale-down timestamps an actual-savings record was returned for
    dupRecord,      \* a second record was returned for a timestamp already in recorded
    prefWrites,     \* instance -> create_tags calls that wrote PreferredInstanceType
    \* the savings-plan estimator, one frame of get_savings_plan_factor per caller
    SAVINGS_PLAN_LOCK,  \* the caller holding the lock, or NoTag
    est,            \* caller -> [pc, calls]
    computations,   \* passes through the computing part of get_savings_plan_factor begun
    storedAt,       \* computations when SAVINGS_PLAN_FACTOR was assigned, None before
    delivered,      \* the [factor, source] pairs callers were returned
    \* the pricing engine, one frame of get_hourly_rate per worker task
    envRegion,      \* session.region_name or AWS_REGION or AWS_DEFAULT_REGION
    iprofile,       \* instance -> pricing profile get_instance_pricing_profile derives
    catalog,        \* the products of the price catalog
    PRICE_CACHE,    \* cache key -> rate, None when the key is absent
    rate,           \* task -> [pc, call, k, price, got]
    queriers,       \* cache key -> the calls <<task, call>> that queried the catalog
    \* one call of retry(api_call, ...)
    envMaxRetries, envBackoffSecs,  \* the MAX_RETRIES and BACKOFF_SECS settings
    rt,             \* [pc, attempt, last_error, outcomes, slept, result]
    \* one call of get_next_scheduled_time(cron_expression, reference_time)
    cron_expression,    \* the fields of the expression, as split() yields them
    reference_time,     \* [date, hour, minute, second, microsecond], naive UTC
    next_scheduled,     \* [pc, schedule, error, value]
    \* one call of instance_matches_schedule(tags, schedule_name)
    schedule_match,     \* [pc, tags, schedule_name, result]
    \* one call of wait_for_instance_type and the start that follows it
    poll                \* [pc, timeout_seconds, poll_interval, clock, deadline,
                        \*  remaining, slept, polls, last, error, started]

providerVars == <<itype, istate, itags, reservations, now>>
envVars == <<FAIL_FAST, BATCH_SIZE, envMaxConcurrent, envDiscountMode,
             envDiscountPercent, coverageData>>
globalVars == <<SAVINGS_PLAN_FACTOR, SAVINGS_PLAN_FACTOR_SOURCE>>
handlerVars == <<hpc, event, run_start_time, instances_to_process, snap,
                 skipped_due_to_schedule, batch, nextIdx, collected,
                 processed_count, savings_records, actual_savings_records,
                 summary, result>>
historyVars == <<invLeft, prevRun, recorded, dupRecord, prefWrites>>
estimatorVars == <<SAVINGS_PLAN_LOCK, est, computations, storedAt, delivered>>
pricingVars == <<envRegion, iprofile, catalog, PRICE_CACHE, rate, queriers>>
retryVars == <<envMaxRetries, envBackoffSecs, rt>>
cronVars == <<cron_expression, reference_time, next_scheduled>>
matchVars == <<schedule_match>>
pollVars == <<poll>>
sharedVars == <<estimatorVars, pricingVars, retryVars, cronVars, matchVars, pollVars>>
vars == <<providerVars, envVars, globalVars, handlerVars, task, historyVars, sharedVars>>

(* ------------------------- configuration parsing ----------------------- *)
\* the decimal texts int() accepts in the model
IntTexts == (0 - 2)..(MaxConcurrency + 5)
IsInt(s) == \E n \in IntTexts : ToString(n) = s
ParseInt(s) == CHOOSE n \in IntTexts : ToString(n) = s

\* get_concurrency_limit: MAX_CONCURRENT_OPERATIONS clamped to [1, 20], 4 by default
GetConcurrencyLimit(raw) ==
    IF raw = NoTag THEN DefaultConcurrency
    ELSE IF ~IsInt(raw) THEN DefaultConcurrency
    ELSE IF ParseInt(raw) < MinConcurrency THEN MinConcurrency
    ELSE IF ParseInt(raw) > MaxConcurrency THEN MaxConcurrency
    ELSE ParseInt(raw)

\* chunks: the batch that starts at index start of the list
Chunk(list, start, size) ==
    SubSeq(list, start, Min(start + size - 1, Len(list)))

(* ----------------------------- schedule match -------------------------- *)
\* normalize_schedule_name on the event's schedule texts of the model
NormalizeScheduleName(value) ==
    CASE value = NoTag -> DEFAULT_SCHEDULE_NAME
      [] value = "  " -> DEFAULT_SCHEDULE_NAME
      [] value = " Peak " -> "peak"
      [] OTHER -> value

\* raw_value.split(",") on the tag texts of the model
SplitCommas(raw_value) ==
    CASE raw_value = "peak,off-hours" -> <<"peak", "off-hours">>
      [] raw_value = "Night , ALL" -> <<"Night ", " ALL">>
      [] raw_value = " , " -> <<" ", " ">>
      [] raw_value = "night,,Default" -> <<"night", "", "Default">>
      [] OTHER -> <<raw_value>>

\* token.strip().lower() on the tokens of the model
CleanToken(token) ==
    CASE token = "Night " -> "night"
      [] token = " ALL" -> "all"
      [] token = " " -> ""
      [] token = "  " -> ""
      [] token = "Default" -> "default"
      [] token = " Peak " -> "peak"
      [] OTHER -> token

\* parse_schedule_tag_value: split on commas, trim and lowercase, drop
\* empty tokens
ParseScheduleTagValue(raw_value) ==
    IF Falsy(raw_value) THEN <<>>
    ELSE SelectSeq([k \in DOMAIN SplitCommas(raw_value) |->
                        CleanToken(SplitCommas(raw_value)[k])],
                   LAMBDA cleaned : cleaned # "")

\* InstanceMatchesSchedule of a filter that treats a tagged instance as
\* a member of the default schedule too
InstanceMatchesSchedule_DefaultToo(tags, schedule_name) ==
    IF schedule_name = SCHEDULE_ALL_TOKEN THEN TRUE
    ELSE IF schedule_name = DEFAULT_SCHEDULE_NAME THEN TRUE
    ELSE IF Falsy(tags.sched) THEN FALSE
    ELSE IF SCHEDULE_ALL_TOKEN \in SeqToSet(ParseScheduleTagValue(tags.sched)) THEN TRUE
    ELSE schedule_name \in SeqToSet(ParseScheduleTagValue(tags.sched))

\* instance_matches_schedule
InstanceMatchesSchedule(tags, schedule_name) ==
    IF schedule_name = SCHEDULE_ALL_TOKEN THEN TRUE
    ELSE IF Falsy(tags.sched) THEN schedule_name = DEFAULT_SCHEDULE_NAME
    ELSE IF ParseScheduleTagValue(tags.sched) = <<>>
         THEN schedule_name = DEFAULT_SCHEDULE_NAME
    ELSE IF SCHEDULE_ALL_TOKEN \in SeqToSet(ParseScheduleTagValue(tags.sched)) THEN TRUE
    ELSE schedule_name \in SeqToSet(ParseScheduleTagValue(tags.sched))

(* ----------------------- savings-plan discount factor ------------------ *)
\* the texts float()/int() accept for the discount settings of the model
PercentTexts == (0 - 5)..150
IsPercent(s) == \E n \in PercentTexts : ToString(n) = s
ParsePercent(s) == CHOOSE n \in PercentTexts : ToString(n) = s

\* get_manual_discount_factor: the factor in 1/10000, None when it raises;
\* float("nan") is a float that is neither < 0 nor > 100
GetManualDiscountFactor(raw_value) ==
    IF raw_value = "nan" THEN NaN
    ELSE IF ~IsPercent(raw_value) THEN None
    ELSE IF ParsePercent(raw_value) < 0 \/ ParsePercent(raw_value) > 100 THEN None
    ELSE FactorScale - ParsePercent(raw_value) * 100

RECURSIVE SumField(_, _)
SumField(pages, f) ==
    IF pages = <<>> THEN 0
    ELSE (IF f = "savings" THEN Head(pages).savings ELSE Head(pages).cost)
         + SumField(Tail(pages), f)

\* get_coverage_discount_factor: cov = [lookback, fails, pages]; None when it raises
GetCoverageDiscountFactor(cov) ==
    IF ~IsPercent(cov.lookback) THEN None
    ELSE IF ParsePercent(cov.lookback) < 1 \/ ParsePercent(cov.lookback) > 90 THEN None
    ELSE IF cov.fails THEN None
    ELSE LET total_savings == SumField(cov.pages, "savings")
             total_cost == SumField(cov.pages, "cost")
             denominator == total_cost + total_savings
         IN  IF denominator <= 0 THEN None
             ELSE FactorScale
                  - Max(Min((total_savings * FactorScale) \div denominator,
                            FactorScale - 1), 0)

\* the body of get_savings_plan_factor, run while SAVINGS_PLAN_LOCK is held:
\* [factor, source, raised] after the call, from the globals before it
SavingsPlanFactorBody(factor, source, mode, pct, cov) ==
    IF factor # None THEN [factor |-> factor, source |-> source, raised |-> FALSE]
    ELSE IF mode = "coverage" /\ GetCoverageDiscountFactor(cov) # None
         THEN [factor |-> GetCoverageDiscountFactor(cov), source |-> "coverage",
               raised |-> FALSE]
    ELSE IF GetManualDiscountFactor(pct) # None
         THEN [factor |-> GetManualDiscountFactor(pct), source |-> "manual",
               raised |-> FALSE]
    ELSE [factor |-> factor, source |-> source, raised |-> TRUE]

(* --------------------------- instance lifecycle ------------------------ *)
\* the record build_actual_savings_snapshot makes once its checks have passed
ActualRecord(instance_id, tags, desired_type, current_type, utcnow) ==
    [instance_id |-> instance_id,
     off_hours_type |-> current_type,
     restored_type |-> desired_type,
     scale_down_timestamp |-> FormatUtc(ParseTimestamp(tags.down)),
     scale_up_timestamp |-> FormatUtc(utcnow),
     downtime |-> Max(utcnow - ParseTimestamp(tags.down), 0),
     hourly_savings |-> ParseHourly(tags.hourly),
     actual_savings |-> ParseHourly(tags.hourly)
                        * Max(utcnow - ParseTimestamp(tags.down), 0)]

\* BuildActualSavingsSnapshot without the comparison with the last scale-up
BuildActualSavingsSnapshot_NoGuard(instance_id, tags, desired_type, current_type, utcnow) ==
    IF Falsy(tags.down) \/ Falsy(tags.hourly) THEN {}
    ELSE IF ParseTimestamp(tags.down) = None THEN {}
    ELSE IF ParseHourly(tags.hourly) = None THEN {}
    ELSE {ActualRecord(instance_id, tags, desired_type, current_type, utcnow)}

\* BuildActualSavingsSnapshot with > in place of >=
BuildActualSavingsSnapshot_StrictGuard(instance_id, tags, desired_type, current_type, utcnow) ==
    IF Falsy(tags.down) \/ Falsy(tags.hourly) THEN {}
    ELSE IF ParseTimestamp(tags.down) = None THEN {}
    ELSE IF ParseTimestamp(tags.up) # None
            /\ ParseTimestamp(tags.up) > ParseTimestamp(tags.down) THEN {}
    ELSE IF ParseHourly(tags.hourly) = None THEN {}
    ELSE {ActualRecord(instance_id, tags, desired_type, current_type, utcnow)}

\* build_actual_savings_snapshot: {} for None, else {record}; utcnow is the
\* clock at the call
BuildActualSavingsSnapshot(instance_id, tags, desired_type, current_type, utcnow) ==
    IF Falsy(tags.down) \/ Falsy(tags.hourly) THEN {}
    ELSE IF ParseTimestamp(tags.down) = None THEN {}
    ELSE IF ParseTimestamp(tags.up) # None
            /\ ParseTimestamp(tags.up) >= ParseTimestamp(tags.down) THEN {}
    ELSE IF ParseHourly(tags.hourly) = None THEN {}
    ELSE {ActualRecord(instance_id, tags, desired_type, current_type, utcnow)}

\* (tags.get("PreferredInstanceType") or "").strip()
PreferredType(tags) == IF Falsy(tags.pref) THEN "" ELSE Strip(tags.pref)

\* desired_type_value of process_instance
DesiredType(data, action) ==
    IF action = "scaledown" THEN DEFAULT_DOWNSIZE_TYPE ELSE PreferredType(data.tags)

\* IsNoOp without the scale-up check of the current type
IsNoOp_NoScaleUpCheck(data, action) ==
    IF action = "scaledown" THEN data.current_type = DEFAULT_DOWNSIZE_TYPE
    ELSE PreferredType(data.tags) = ""

\* IsNoOp without the scale-down check of the current type
IsNoOp_NoScaleDownCheck(data, action) ==
    IF action = "scaledown" THEN FALSE
    ELSE PreferredType(data.tags) = "" \/ data.current_type = PreferredType(data.tags)

\* the three early returns (False, None, None) of process_instance
IsNoOp(data, action) ==
    IF action = "scaledown" THEN data.current_type = DEFAULT_DOWNSIZE_TYPE
    ELSE PreferredType(data.tags) = "" \/ data.current_type = PreferredType(data.tags)

\* KeepsPreferredTag that always tags again
KeepsPreferredTag_Never(data) == FALSE

\* KeepsPreferredTag that never writes the tag
KeepsPreferredTag_Always(data) == TRUE

\* scale-down keeps a preferred-type tag that is already set
KeepsPreferredTag(data) == PreferredType(data.tags) # ""

\* SequenceEntry of a task that takes the snapshot before the sequence
SequenceEntry_Snapshot(data) == "snapshot"

\* SequenceEntry of a task that never stops the instance first
SequenceEntry_Modify(data) == "modify"

\* where the shared stop/modify/start sequence starts
SequenceEntry(data) == IF data.state # "stopped" THEN "stop" ELSE "modify"

FinalPcs == {"done_ok", "done_noop", "raised"}
QueuedPcs == {"unsubmitted", "pending"}
IdleTask == [pc |-> "unsubmitted", savings |-> {}, actual |-> {}, pricing_error |-> "none"]

Running == {i \in Instances : task[i].pc \notin (FinalPcs \cup QueuedPcs)}
InBatch(i) == i \in SeqToSet(batch)
TasksLive == hpc \in {"batch", "abort"}

\* the worker pool takes queued work in submission order
HeadOfQueue(i) ==
    \E k \in 1..Len(batch) :
        /\ batch[k] = i
        /\ task[i].pc = "pending"
        /\ \A j \in 1..(k - 1) : task[batch[j]].pc # "pending"

\* WorkerFree of a pool that grows without limit
WorkerFree_Unbounded(limit) == TRUE

\* a worker thread is free to take process_instance(i)
WorkerFree(limit) == Cardinality(Running) < limit

\* process_instance up to its first provider call
TaskBegin(i) ==
    /\ TasksLive /\ InBatch(i) /\ HeadOfQueue(i)
    /\ WorkerFree(GetConcurrencyLimit(envMaxConcurrent))
    /\ task' = [task EXCEPT ![i].pc =
                   IF IsNoOp(snap[i], event.action) THEN "done_noop"
                   ELSE IF event.action = "scaledown"
                        THEN (IF KeepsPreferredTag(snap[i]) THEN "savings" ELSE "tagpref")
                        ELSE SequenceEntry(snap[i])]
    /\ UNCHANGED <<sharedVars, providerVars, envVars, globalVars, handlerVars, historyVars>>

\* retry(create_tags PreferredInstanceType = current_type)
TaskTagPreferred(i, ok) ==
    /\ TasksLive /\ task[i].pc = "tagpref"
    /\ IF ok
       THEN /\ itags' = [itags EXCEPT ![i].pref = snap[i].current_type]
            /\ prefWrites' = [prefWrites EXCEPT ![i] = @ + 1]
            /\ task' = [task EXCEPT ![i].pc = "savings"]
       ELSE /\ UNCHANGED <<itags, prefWrites>>
            /\ task' = [task EXCEPT ![i].pc = "raised"]
    /\ UNCHANGED <<sharedVars, itype, istate, reservations, now, envVars, globalVars,
                   handlerVars, invLeft, prevRun, recorded, dupRecord>>

\* hourly_savings of the scale-down record, in 1/10000 dollar
HourlySavings(original_rate, downsized_rate, factor) ==
    (Max(original_rate - downsized_rate, 0) * factor) \div FactorScale

\* AfterSavings of a scale-down whose savings computation is not in a try
AfterSavings_NoExcept(data, pricing_error) ==
    IF pricing_error # "none" THEN "raised" ELSE SequenceEntry(data)

\* except Exception as pricing_error: whatever the try block raised, the
\* flow goes on to the shared sequence
AfterSavings(data, pricing_error) == SequenceEntry(data)

\* the try block of scale-down: rates is <<>> when the profile or a rate
\* lookup raised, else <<original_rate, downsized_rate>>
TaskSavings(i, rates, tags_ok) ==
    /\ TasksLive /\ task[i].pc = "savings"
    /\ LET f == SavingsPlanFactorBody(SAVINGS_PLAN_FACTOR, SAVINGS_PLAN_FACTOR_SOURCE,
                                      envDiscountMode, envDiscountPercent, coverageData)
           computed == rates # <<>> /\ ~f.raised
           hourly == IF computed THEN HourlySavings(rates[1], rates[2], f.factor) ELSE 0
           record == [instance_id |-> i,
                      previous_type |-> snap[i].current_type,
                      downsized_type |-> DEFAULT_DOWNSIZE_TYPE,
                      hourly_savings |-> hourly,
                      scale_down_timestamp |-> FormatUtc(run_start_time)]
           pricing_error == IF rates = <<>> THEN "pricing"
                            ELSE IF f.raised THEN "factor"
                            ELSE IF ~tags_ok THEN "tags" ELSE "none"
       IN  /\ SAVINGS_PLAN_FACTOR' = IF rates # <<>> THEN f.factor ELSE SAVINGS_PLAN_FACTOR
           /\ SAVINGS_PLAN_FACTOR_SOURCE' =
                  IF rates # <<>> THEN f.source ELSE SAVINGS_PLAN_FACTOR_SOURCE
           /\ task' = [task EXCEPT ![i].pc = AfterSavings(snap[i], pricing_error),
                                   ![i].savings = IF computed THEN {record} ELSE {},
                                   ![i].pricing_error = pricing_error]
           /\ itags' = IF computed /\ tags_ok
                       THEN [itags EXCEPT ![i].down = FormatUtc(run_start_time),
                                          ![i].hourly = FormatHourly(hourly)]
                       ELSE itags
    /\ UNCHANGED <<sharedVars, itype, istate, reservations, now, envVars, handlerVars, historyVars>>

\* retry(stop_instances)
TaskStop(i, ok) ==
    /\ TasksLive /\ task[i].pc = "stop"
    /\ istate' = IF ok THEN [istate EXCEPT ![i] = "stopped"] ELSE istate
    /\ task' = [task EXCEPT ![i].pc = IF ok THEN "waitstopped" ELSE "raised"]
    /\ UNCHANGED <<sharedVars, itype, itags, reservations, now, envVars, globalVars,
                   handlerVars, historyVars>>

\* retry(get_waiter("instance_stopped").wait)
TaskWaitStopped(i, ok) ==
    /\ TasksLive /\ task[i].pc = "waitstopped"
    /\ task' = [task EXCEPT ![i].pc = IF ok THEN "modify" ELSE "raised"]
    /\ UNCHANGED <<sharedVars, providerVars, envVars, globalVars, handlerVars, historyVars>>

\* retry(modify_instance_attribute InstanceType = desired_type_value)
TaskModify(i, ok) ==
    /\ TasksLive /\ task[i].pc = "modify"
    /\ itype' = IF ok THEN [itype EXCEPT ![i] = DesiredType(snap[i], event.action)]
                ELSE itype
    /\ task' = [task EXCEPT ![i].pc = IF ok THEN "waittype" ELSE "raised"]
    /\ UNCHANGED <<sharedVars, istate, itags, reservations, now, envVars, globalVars,
                   handlerVars, historyVars>>

\* wait_for_instance_type: confirmed, or TimeoutError / a describe error
TaskWaitType(i, ok) ==
    /\ TasksLive /\ task[i].pc = "waittype"
    /\ task' = [task EXCEPT ![i].pc = IF ok THEN "start" ELSE "raised"]
    /\ UNCHANGED <<sharedVars, providerVars, envVars, globalVars, handlerVars, historyVars>>

\* retry(start_instances)
TaskStart(i, ok) ==
    /\ TasksLive /\ task[i].pc = "start"
    /\ istate' = IF ok THEN [istate EXCEPT ![i] = "running"] ELSE istate
    /\ task' = [task EXCEPT ![i].pc = IF ok THEN "waitrunning" ELSE "raised"]
    /\ UNCHANGED <<sharedVars, itype, itags, reservations, now, envVars, globalVars,
                   handlerVars, historyVars>>

\* retry(get_waiter("instance_running").wait), then the return of scale-down
TaskWaitRunning(i, ok) ==
    /\ TasksLive /\ task[i].pc = "waitrunning"
    /\ task' = [task EXCEPT ![i].pc =
                   IF ~ok THEN "raised"
                   ELSE IF event.action = "scaleup" THEN "snapshot" ELSE "done_ok"]
    /\ UNCHANGED <<sharedVars, providerVars, envVars, globalVars, handlerVars, historyVars>>

\* scale-up after the restart: the snapshot from the enumerated tags, the
\* last-scale-up tag, the return
TaskSnapshot(i, ok) ==
    /\ TasksLive /\ task[i].pc = "snapshot"
    /\ LET actual_result ==
               BuildActualSavingsSnapshot(i, snap[i].tags,
                                          DesiredType(snap[i], event.action),
                                          snap[i].current_type, now)
           stamp == ParseTimestamp(snap[i].tags.down)
       IN  IF actual_result = {}
           THEN /\ task' = [task EXCEPT ![i].pc = "done_ok"]
                /\ UNCHANGED <<itags, recorded, dupRecord>>
           ELSE IF ok
           THEN /\ itags' = [itags EXCEPT ![i].up = FormatUtc(now)]
                /\ task' = [task EXCEPT ![i].pc = "done_ok", ![i].actual = actual_result]
                /\ recorded' = [recorded EXCEPT ![i] = @ \cup {stamp}]
                /\ dupRecord' = (dupRecord \/ stamp \in recorded[i])
           ELSE /\ task' = [task EXCEPT ![i].pc = "raised"]
                /\ UNCHANGED <<itags, recorded, dupRecord>>
    /\ UNCHANGED <<sharedVars, itype, istate, reservations, now, envVars, globalVars,
                   handlerVars, invLeft, prevRun, prefWrites>>

(* ------------------------------ orchestrator --------------------------- *)
\* instance_data of one enumerated instance
InstanceData(i) ==
    [instance_id |-> i, current_type |-> itype[i], state |-> istate[i],
     tags |-> itags[i]]

\* AlreadySeen of a loop that keeps no set of seen ids
AlreadySeen_Never(instance_id, seen_instance_ids) == FALSE

\* if instance_id in seen_instance_ids: continue
AlreadySeen(instance_id, seen_instance_ids) == instance_id \in seen_instance_ids

\* the loop over the reservations: duplicates dropped, the schedule filter
\* counted in skipped, the rest queued in order
RECURSIVE Enumerate(_, _, _, _)
Enumerate(resv, k, acc, schedule_name) ==
    IF k > Len(resv) THEN acc
    ELSE IF AlreadySeen(resv[k], acc.seen) THEN Enumerate(resv, k + 1, acc, schedule_name)
    ELSE IF ~InstanceMatchesSchedule(itags[resv[k]], schedule_name)
         THEN Enumerate(resv, k + 1,
                        [acc EXCEPT !.seen = @ \cup {resv[k]}, !.skipped = @ + 1],
                        schedule_name)
    ELSE Enumerate(resv, k + 1,
                   [acc EXCEPT !.seen = @ \cup {resv[k]}, !.queue = Append(@, resv[k])],
                   schedule_name)

\* BATCH_SIZE if BATCH_SIZE > 0 else 1
EffectiveBatchSize == IF BATCH_SIZE > 0 THEN BATCH_SIZE ELSE 1

\* executor.submit for every instance of the batch
Submitted(ids) ==
    [i \in Instances |->
        IF i \in SeqToSet(ids) THEN [IdleTask EXCEPT !.pc = "pending"] ELSE IdleTask]

Returned(processed, skipped, error) ==
    [kind |-> "return", processed |-> processed, skipped |-> skipped, error |-> error]
Raised(error) ==
    [kind |-> "raise", processed |-> 0, skipped |-> 0, error |-> error]

HandlerAtRest == hpc \in {"idle", "returned", "raised"}

\* event.get("source", "manual")
EventSource(ev) == IF ev.source = NoTag THEN "manual" ELSE ev.source

\* Rejected of a handler that does not test the source
Rejected_ActionOnly(ev) == ev.action \notin VALID_ACTIONS

\* the two checks at the top of lambda_handler
Rejected(ev) == ev.action \notin VALID_ACTIONS \/ EventSource(ev) = "manual"

\* lambda_handler from its entry to the submission of the first batch
Invoke(ev, describe) ==
    /\ HandlerAtRest /\ invLeft > 0
    /\ invLeft' = invLeft - 1
    /\ prevRun' = [action |-> event.action,
                   processed |-> {i \in Instances : task[i].pc = "done_ok"}]
    /\ event' = ev
    /\ collected' = {}
    /\ processed_count' = 0
    /\ savings_records' = {}
    /\ actual_savings_records' = {}
    /\ summary' = {}
    /\ LET schedule_name == NormalizeScheduleName(ev.schedule)
           found == Enumerate(reservations, 1,
                              [seen |-> {}, skipped |-> 0, queue |-> <<>>],
                              schedule_name)
           first == Chunk(found.queue, 1, EffectiveBatchSize)
           describe_ok == describe = "ok"
       IN  IF Rejected(ev)
           THEN /\ hpc' = "raised"
                /\ result' = Raised(IF ev.action \notin VALID_ACTIONS
                                    THEN "invalid_action" ELSE "manual_blocked")
                /\ task' = [i \in Instances |-> IdleTask]
                /\ batch' = <<>> /\ nextIdx' = 1
                /\ instances_to_process' = <<>>
                /\ skipped_due_to_schedule' = 0
                /\ UNCHANGED <<run_start_time, snap>>
           ELSE /\ run_start_time' = now
                /\ task' = IF describe_ok THEN Submitted(first)
                           ELSE [i \in Instances |-> IdleTask]
                /\ batch' = IF describe_ok THEN first ELSE <<>>
                /\ nextIdx' = IF describe_ok THEN Len(first) + 1 ELSE 1
                /\ instances_to_process' = IF describe_ok THEN found.queue ELSE <<>>
                /\ skipped_due_to_schedule' = IF describe_ok THEN found.skipped ELSE 0
                /\ snap' = IF describe_ok THEN [i \in Instances |-> InstanceData(i)]
                           ELSE snap
                /\ hpc' = IF describe = "Exception" THEN "raised"
                          ELSE IF describe_ok /\ found.queue # <<>> THEN "batch"
                          ELSE "returned"
                /\ result' = IF describe = "Exception" THEN Raised("describe_instances")
                             ELSE IF ~describe_ok
                             THEN Returned(0, 0, "describe_instances_failed")
                             ELSE IF found.queue = <<>>
                             THEN Returned(0, found.skipped, "")
                             ELSE [kind |-> "none", processed |-> 0, skipped |-> 0,
                                   error |-> ""]
    /\ UNCHANGED <<sharedVars, providerVars, envVars, globalVars, recorded, dupRecord, prefWrites>>

\* AfterFailure that re-raises whatever FAIL_FAST says
AfterFailure_AlwaysRaise(fail_fast) == "abort"

\* AfterFailure that never re-raises
AfterFailure_NeverRaise(fail_fast) == "batch"

\* except Exception: the run goes on unless FAIL_FAST re-raises
AfterFailure(fail_fast) == IF fail_fast THEN "abort" ELSE "batch"

\* one turn of the as_completed loop: future.result() of a finished task
Collect(i) ==
    /\ hpc = "batch" /\ InBatch(i) /\ i \notin collected
    /\ task[i].pc \in FinalPcs
    /\ collected' = collected \cup {i}
    /\ IF task[i].pc = "raised"
       THEN /\ hpc' = AfterFailure(FAIL_FAST)
            /\ UNCHANGED <<processed_count, savings_records, actual_savings_records>>
       ELSE /\ hpc' = hpc
            /\ processed_count' = processed_count
                                  + (IF task[i].pc = "done_ok" THEN 1 ELSE 0)
            /\ savings_records' = savings_records \cup task[i].savings
            /\ actual_savings_records' = actual_savings_records \cup task[i].actual
    /\ UNCHANGED <<sharedVars, providerVars, envVars, globalVars, event, run_start_time,
                   instances_to_process, snap, skipped_due_to_schedule, batch,
                   nextIdx, summary, result, task, historyVars>>

\* BatchCollected of a loop that does not wait for the batch
BatchCollected_NoWait == TRUE

\* as_completed has yielded every future of the batch
BatchCollected == SeqToSet(batch) \subseteq collected

\* the executor of a finished batch closes and the next chunk is submitted
NextBatch ==
    /\ hpc = "batch" /\ BatchCollected
    /\ nextIdx <= Len(instances_to_process)
    /\ LET ids == Chunk(instances_to_process, nextIdx, EffectiveBatchSize)
       IN  /\ batch' = ids
           /\ nextIdx' = nextIdx + Len(ids)
           /\ task' = [i \in Instances |->
                          IF i \in SeqToSet(ids) THEN [IdleTask EXCEPT !.pc = "pending"]
                          ELSE task[i]]
    /\ UNCHANGED <<sharedVars, providerVars, envVars, globalVars, hpc, event, run_start_time,
                   instances_to_process, snap, skipped_due_to_schedule, collected,
                   processed_count, savings_records, actual_savings_records,
                   summary, result, historyVars>>

RECURSIVE SumOf(_, _)
SumOf(records, f) ==
    IF records = {} THEN 0
    ELSE LET r == CHOOSE x \in records : TRUE
         IN  (CASE f = "hourly_savings" -> r.hourly_savings
                [] f = "actual_savings" -> r.actual_savings
                [] OTHER -> r.downtime)
             + SumOf(records \ {r}, f)

\* the summary record_savings logs, writes and publishes
SavingsSummary(records, f) ==
    [kind |-> "savings",
     timestamp |-> FormatUtc(run_start_time),
     discount |-> FactorScale - f.factor,
     discount_source |-> f.source,
     total |-> SumOf(records, "hourly_savings"),
     instances |-> records,
     zero_savings |-> records = {}]

\* the summary record_actual_savings logs, writes and publishes
ActualSavingsSummary(records) ==
    [kind |-> "actual-savings",
     timestamp |-> FormatUtc(run_start_time),
     total |-> SumOf(records, "actual_savings"),
     total_downtime |-> SumOf(records, "downtime"),
     total_basis |-> SumOf(records, "hourly_savings"),
     instances |-> records,
     zero_savings |-> records = {}]

\* the batch loop is over: record_savings / record_actual_savings and the return
Finish ==
    /\ hpc = "batch" /\ BatchCollected
    /\ nextIdx > Len(instances_to_process)
    /\ LET f == SavingsPlanFactorBody(SAVINGS_PLAN_FACTOR, SAVINGS_PLAN_FACTOR_SOURCE,
                                      envDiscountMode, envDiscountPercent, coverageData)
       IN  IF event.action = "scaledown"
           THEN /\ SAVINGS_PLAN_FACTOR' = f.factor
                /\ SAVINGS_PLAN_FACTOR_SOURCE' = f.source
                /\ summary' = IF f.raised THEN {} ELSE {SavingsSummary(savings_records, f)}
                /\ hpc' = IF f.raised THEN "raised" ELSE "returned"
                /\ result' = IF f.raised THEN Raised("discount_percent")
                             ELSE Returned(processed_count, skipped_due_to_schedule, "")
           ELSE /\ UNCHANGED globalVars
                /\ summary' = {ActualSavingsSummary(actual_savings_records)}
                /\ hpc' = "returned"
                /\ result' = Returned(processed_count, skipped_due_to_schedule, "")
    /\ UNCHANGED <<sharedVars, providerVars, envVars, event, run_start_time, instances_to_process,
                   snap, skipped_due_to_schedule, batch, nextIdx, collected,
                   processed_count, savings_records, actual_savings_records, task,
                   historyVars>>

\* ExecutorJoined of an executor whose exit does not wait
ExecutorJoined_NoWait == TRUE

\* the exit of the with block, executor.shutdown(wait=True), has returned
ExecutorJoined == \A i \in SeqToSet(batch) : task[i].pc \in FinalPcs

\* fail-fast: the raise leaves the with block, whose exit waits for every
\* task of the batch, and the exception leaves lambda_handler
AbortExit ==
    /\ hpc = "abort"
    /\ ExecutorJoined
    /\ hpc' = "raised"
    /\ result' = Raised("task_failed")
    /\ UNCHANGED <<sharedVars, providerVars, envVars, globalVars, event, run_start_time,
                   instances_to_process, snap, skipped_due_to_schedule, batch,
                   nextIdx, collected, processed_count, savings_records,
                   actual_savings_records, summary, task, historyVars>>

\* the wall clock advances
Tick ==
    /\ now < MaxTime
    /\ now' = now + 1
    /\ UNCHANGED <<sharedVars, itype, istate, itags, reservations, envVars, globalVars,
                   handlerVars, task, historyVars>>

(* ------------------- savings-plan estimator, per caller ---------------- *)
\* the threads that call get_savings_plan_factor: the worker tasks
\* (process_instance) and the handler's thread (record_savings)
Callers == Instances \cup {"MainThread"}

IdleCaller == [pc |-> "idle", calls |-> 0]

\* CanAcquire of an estimator that takes no lock
CanAcquire_Always(lock) == TRUE

\* with SAVINGS_PLAN_LOCK: the lock can be taken when no caller holds it
CanAcquire(lock) == lock = NoTag

\* return SAVINGS_PLAN_FACTOR from inside the with block
FactorReturn(t, factor, source) ==
    /\ delivered' = delivered \cup {[factor |-> factor, source |-> source]}
    /\ SAVINGS_PLAN_LOCK' = NoTag
    /\ est' = [est EXCEPT ![t] = [pc |-> "idle", calls |-> @.calls + 1]]

\* get_savings_plan_factor: take the lock, test the global, read the mode
FactorEnter(t) ==
    /\ est[t].pc = "idle" /\ est[t].calls < MaxCalls
    /\ CanAcquire(SAVINGS_PLAN_LOCK)
    /\ IF SAVINGS_PLAN_FACTOR # None
       THEN /\ FactorReturn(t, SAVINGS_PLAN_FACTOR, SAVINGS_PLAN_FACTOR_SOURCE)
            /\ UNCHANGED computations
       ELSE /\ SAVINGS_PLAN_LOCK' = t
            /\ est' = [est EXCEPT ![t].pc =
                          IF envDiscountMode = "coverage" THEN "coverage" ELSE "manual"]
            /\ computations' = computations + 1
            /\ UNCHANGED delivered
    /\ UNCHANGED <<providerVars, envVars, globalVars, handlerVars, task, historyVars, cronVars,
                   matchVars, pollVars,
                   storedAt, pricingVars, retryVars>>

\* AfterCoverageError of an estimator that lets the coverage error out
AfterCoverageError_Raise(mode) == "raise"

\* except Exception as coverage_error: the manual computation comes next
AfterCoverageError(mode) == "manual"

\* the coverage branch; outage: Cost Explorer fails this call
FactorCoverage(t, outage) ==
    /\ est[t].pc = "coverage"
    /\ LET f == GetCoverageDiscountFactor([coverageData EXCEPT !.fails = @ \/ outage])
       IN  IF f # None
           THEN /\ SAVINGS_PLAN_FACTOR' = f
                /\ SAVINGS_PLAN_FACTOR_SOURCE' = "coverage"
                /\ storedAt' = computations
                /\ FactorReturn(t, f, "coverage")
           ELSE IF AfterCoverageError(envDiscountMode) = "manual"
           THEN /\ est' = [est EXCEPT ![t].pc = "manual"]
                /\ UNCHANGED <<globalVars, storedAt, delivered, SAVINGS_PLAN_LOCK>>
           ELSE /\ SAVINGS_PLAN_LOCK' = NoTag
                /\ est' = [est EXCEPT ![t] = [pc |-> "idle", calls |-> @.calls + 1]]
                /\ UNCHANGED <<globalVars, storedAt, delivered>>
    /\ UNCHANGED <<providerVars, envVars, handlerVars, task, historyVars, cronVars,
                   matchVars, pollVars,
                   computations, pricingVars, retryVars>>

\* the manual computation; when it raises the with block releases the lock
FactorManual(t) ==
    /\ est[t].pc = "manual"
    /\ LET f == GetManualDiscountFactor(envDiscountPercent)
       IN  IF f # None
           THEN /\ SAVINGS_PLAN_FACTOR' = f
                /\ SAVINGS_PLAN_FACTOR_SOURCE' = "manual"
                /\ storedAt' = computations
                /\ FactorReturn(t, f, "manual")
           ELSE /\ SAVINGS_PLAN_LOCK' = NoTag
                /\ est' = [est EXCEPT ![t] = [pc |-> "idle", calls |-> @.calls + 1]]
                /\ UNCHANGED <<globalVars, storedAt, delivered>>
    /\ UNCHANGED <<providerVars, envVars, handlerVars, task, historyVars, cronVars,
                   matchVars, pollVars,
                   computations, pricingVars, retryVars>>

(* ---------------------- pricing engine, per worker task ---------------- *)
DEFAULT_PRICING_FILTERS ==
    [operatingSystem |-> "Linux", preInstalledSw |-> "NA",
     licenseModel |-> "No License required"]

\* the PLATFORM_FILTER_RULES entry of "windows"
WindowsFilters ==
    [operatingSystem |-> "Windows", preInstalledSw |-> "NA",
     licenseModel |-> "License Included"]

\* a default profile whose software and license settings are empty
BareFilters ==
    [operatingSystem |-> "Linux", preInstalledSw |-> "", licenseModel |-> ""]

Profiles == {DEFAULT_PRICING_FILTERS, WindowsFilters, BareFilters}

\* get_region
GetRegion(configured) == IF Falsy(configured) THEN "unknown" ELSE configured

\* get_location: REGION_NAME_MAP.get(region_name)
GetLocation(region_name) ==
    IF region_name = "us-east-1" THEN "US East (N. Virginia)" ELSE "Unknown"

BuildPricingCacheKey(instance_type, pricing_filters) ==
    <<instance_type, pricing_filters.operatingSystem,
      pricing_filters.preInstalledSw, pricing_filters.licenseModel>>

\* build_filters: the attribute filters of the request, "" for a field that
\* is left out (instanceType, location, tenancy and capacitystatus are in
\* every variant)
BuildFilters(pricing_filters) ==
    [f \in {"operatingSystem", "preInstalledSw", "licenseModel"} |->
        IF Falsy(pricing_filters[f]) THEN "" ELSE pricing_filters[f]]

RemoveFilter(filters, field_name) == [filters EXCEPT ![field_name] = ""]

UpdateFilter(filters, field_name, value) ==
    IF filters[field_name] = "" THEN filters ELSE [filters EXCEPT ![field_name] = value]

\* unique_variants: the first occurrence of each signature, in order
RECURSIVE UniqueVariants(_, _)
UniqueVariants(filter_variants, seen_variants) ==
    IF filter_variants = <<>> THEN <<>>
    ELSE IF Head(filter_variants) \in seen_variants
         THEN UniqueVariants(Tail(filter_variants), seen_variants)
         ELSE <<Head(filter_variants)>>
              \o UniqueVariants(Tail(filter_variants),
                                seen_variants \cup {Head(filter_variants)})

\* FilterVariants of a lookup that tries the full filter set only
FilterVariants_BaseOnly(pricing_filters) == <<BuildFilters(pricing_filters)>>

\* the filter variants get_hourly_rate tries, in order
FilterVariants(pricing_filters) ==
    LET base_filters == BuildFilters(pricing_filters)
        license_value == pricing_filters.licenseModel
        preinstalled_value == pricing_filters.preInstalledSw
        v1 == <<base_filters>>
        v2 == IF Falsy(license_value) THEN v1
              ELSE (IF license_value = "License Included"
                    THEN Append(v1, UpdateFilter(base_filters, "licenseModel",
                                                 "No License required"))
                    ELSE v1)
                   \o <<RemoveFilter(base_filters, "licenseModel")>>
        v3 == IF Falsy(preinstalled_value) THEN v2
              ELSE Append(v2, RemoveFilter(base_filters, "preInstalledSw"))
        v4 == IF ~Falsy(license_value) /\ ~Falsy(preinstalled_value)
              THEN Append(v3, RemoveFilter(RemoveFilter(base_filters, "licenseModel"),
                                           "preInstalledSw"))
              ELSE v3
    IN  UniqueVariants(v4, {})

\* the keys PRICE_CACHE can hold in the model: a type with a requested
\* profile or with the attribute values of one of its filter variants
CacheKeys ==
    {BuildPricingCacheKey(t, p) : t \in Types, p \in Profiles}
        \cup UNION {{BuildPricingCacheKey(t, FilterVariants(p)[k]) :
                         k \in DOMAIN FilterVariants(p)} :
                     t \in Types, p \in Profiles}

\* the on-demand price the catalog quotes for a type, in 1/10000 dollar
OnDemandPrice(instance_type) ==
    IF instance_type = DEFAULT_DOWNSIZE_TYPE THEN 0 ELSE MaxRate

Product(instance_type, os, sw, lic) ==
    [instanceType |-> instance_type, operatingSystem |-> os,
     preInstalledSw |-> sw, licenseModel |-> lic,
     price |-> OnDemandPrice(instance_type)]

\* every profile priced as asked
FullCatalog ==
    {Product(t, "Linux", "NA", "No License required") : t \in Types}
        \cup {Product(t, "Windows", "NA", "License Included") : t \in Types}

\* Windows priced only under "No License required"
RelaxedCatalog ==
    {Product(t, "Linux", "NA", "No License required") : t \in Types}
        \cup {Product(t, "Windows", "NA", "No License required") : t \in Types}

\* a product whose entry has no on-demand term
Unpriced(product) == [product EXCEPT !.price = None]

\* Windows listed under "License Included" without an on-demand term, and
\* priced under "No License required"
UntermedCatalog ==
    RelaxedCatalog
        \cup {Unpriced(Product(t, "Windows", "NA", "License Included")) : t \in Types}

Catalogs == {FullCatalog, RelaxedCatalog, UntermedCatalog, {}}

\* try_filters: the prices the call can return for the entries the catalog
\* may answer with (MaxResults=1), None for no entry or no price dimension
TryFilters(price_list) ==
    IF price_list = {} THEN {None} ELSE {p.price : p \in price_list}

\* get_products(Filters=filters_to_use): the products a TERM_MATCH on every
\* filter of the request selects
GetProducts(products, instance_type, filters_to_use) ==
    {p \in products :
        /\ p.instanceType = instance_type
        /\ \A f \in {"operatingSystem", "preInstalledSw", "licenseModel"} :
              filters_to_use[f] = "" \/ p[f] = filters_to_use[f]}

\* the arguments of the two calls process_instance makes for a scale-down
RateType(i, call) == IF call = 1 THEN itype[i] ELSE DEFAULT_DOWNSIZE_TYPE
RateKey(i, call) == BuildPricingCacheKey(RateType(i, call), iprofile[i])

RateFrame(pc) ==
    [pc |-> pc, call |-> 1, k |-> 1, price |-> None, got |-> <<>>,
     attempted |-> <<>>, error |-> "none"]

\* get_hourly_rate returns value to process_instance, which makes its next call
RateReturn(i, value) ==
    rate' = [rate EXCEPT ![i] =
                [pc |-> IF @.call = 1 THEN "lookup" ELSE "done",
                 call |-> IF @.call = 1 THEN 2 ELSE @.call,
                 k |-> 1, price |-> None, got |-> Append(@.got, value),
                 attempted |-> <<>>, error |-> "none"]]

\* get_hourly_rate up to the first catalog query: the locked read of the
\* cache, then the region and location
RateLookup(i) ==
    /\ rate[i].pc = "lookup"
    /\ LET cached_price == PRICE_CACHE[RateKey(i, rate[i].call)]
           region_name == GetRegion(envRegion)
       IN  IF cached_price # None THEN RateReturn(i, cached_price)
           ELSE IF region_name = "unknown" \/ GetLocation(region_name) = "Unknown"
                THEN RateReturn(i, 0)
           ELSE rate' = [rate EXCEPT ![i].pc = "query", ![i].k = 1]
    /\ UNCHANGED <<providerVars, envVars, globalVars, handlerVars, task, historyVars, cronVars,
                   matchVars, pollVars,
                   estimatorVars, retryVars, envRegion, iprofile, catalog, PRICE_CACHE,
                   queriers>>

\* try_filters on variant k; ok: get_products answered
RateQuery(i, ok) ==
    /\ rate[i].pc = "query"
    /\ queriers' = [queriers EXCEPT ![RateKey(i, rate[i].call)] =
                        @ \cup {<<i, rate[i].call>>}]
    /\ LET unique_variants == FilterVariants(iprofile[i])
           price_list == GetProducts(catalog, RateType(i, rate[i].call),
                                     unique_variants[rate[i].k])
           attempted_filters == Append(rate[i].attempted, unique_variants[rate[i].k])
       IN  IF ~ok THEN rate' = [rate EXCEPT ![i].pc = "raised", ![i].error = "ClientError"]
           ELSE \E price \in TryFilters(price_list) :
                   IF price # None
                   THEN rate' = [rate EXCEPT ![i].pc = "store", ![i].price = price,
                                             ![i].attempted = attempted_filters]
                   ELSE IF rate[i].k < Len(unique_variants)
                        THEN rate' = [rate EXCEPT ![i].k = @ + 1,
                                                  ![i].attempted = attempted_filters]
                   ELSE rate' = [rate EXCEPT ![i].pc = "raised",
                                             ![i].error = "ValueError",
                                             ![i].attempted = attempted_filters]
    /\ UNCHANGED <<providerVars, envVars, globalVars, handlerVars, task, historyVars, cronVars,
                   matchVars, pollVars,
                   estimatorVars, retryVars, envRegion, iprofile, catalog, PRICE_CACHE>>

\* StoreKey of a cache that files the rate under the filters that matched
StoreKey_Matched(instance_type, pricing_filters, filters_to_use) ==
    BuildPricingCacheKey(instance_type, filters_to_use)

\* the key of PRICE_CACHE[cache_key] = price: cache_key was built from the
\* arguments of the call, before any variant was tried
StoreKey(instance_type, pricing_filters, filters_to_use) ==
    BuildPricingCacheKey(instance_type, pricing_filters)

\* the locked write of the cache, and the return
RateStore(i) ==
    /\ rate[i].pc = "store"
    /\ PRICE_CACHE' =
          [PRICE_CACHE EXCEPT ![StoreKey(RateType(i, rate[i].call), iprofile[i],
                                         FilterVariants(iprofile[i])[rate[i].k])] =
                                   rate[i].price]
    /\ RateReturn(i, rate[i].price)
    /\ UNCHANGED <<providerVars, envVars, globalVars, handlerVars, task, historyVars, cronVars,
                   matchVars, pollVars,
                   estimatorVars, retryVars, envRegion, iprofile, catalog, queriers>>

(* ------------------------------ retry wrapper -------------------------- *)
\* parse_int_env(var_name, default, minimum)
ParseIntEnv(raw_value, default, minimum) ==
    IF ~IsInt(raw_value) THEN default
    ELSE Max(ParseInt(raw_value), minimum)

\* parse_float_env(var_name, default, minimum), in whole seconds
ParseFloatEnv(raw_value, default, minimum) ==
    IF ~IsInt(raw_value) THEN default
    ELSE Max(ParseInt(raw_value), minimum)

MAX_RETRIES == ParseIntEnv(envMaxRetries, DefaultMaxRetries, 1)
BACKOFF_SECS == ParseFloatEnv(envBackoffSecs, DefaultBackoffSecs, 0)

RetryFrame(pc) ==
    [pc |-> pc, attempt |-> 1, last_error |-> <<>>, outcomes |-> <<>>,
     slept |-> <<>>, result |-> <<>>]

\* MoreAttempts of a loop that runs once too often
MoreAttempts_OneTooMany(attempt, max_retries) == attempt <= max_retries

\* for attempt in range(1, MAX_RETRIES + 1): another attempt follows this one
MoreAttempts(attempt, max_retries) == attempt < max_retries

\* try: return api_call(...), except: last_error = exc
RetryAttempt(outcome) ==
    /\ rt.pc = "call"
    /\ rt' = IF outcome = "ok"
             THEN [rt EXCEPT !.pc = "returned",
                             !.outcomes = Append(@, outcome),
                             !.result = <<"value", rt.attempt>>]
             ELSE [rt EXCEPT !.pc = "sleep",
                             !.outcomes = Append(@, outcome),
                             !.last_error = <<outcome, rt.attempt>>]
    /\ UNCHANGED <<providerVars, envVars, globalVars, handlerVars, task, historyVars, cronVars,
                   matchVars, pollVars,
                   estimatorVars, pricingVars, envMaxRetries, envBackoffSecs>>

\* time.sleep(BACKOFF_SECS * attempt), the last statement of the loop body
RetrySleep ==
    /\ rt.pc = "sleep"
    /\ rt' = [rt EXCEPT !.slept = Append(@, BACKOFF_SECS * rt.attempt),
                        !.attempt = IF MoreAttempts(rt.attempt, MAX_RETRIES)
                                    THEN @ + 1 ELSE @,
                        !.pc = IF MoreAttempts(rt.attempt, MAX_RETRIES)
                               THEN "call" ELSE "exhausted"]
    /\ UNCHANGED <<providerVars, envVars, globalVars, handlerVars, task, historyVars, cronVars,
                   matchVars, pollVars,
                   estimatorVars, pricingVars, envMaxRetries, envBackoffSecs>>

\* after the loop: raise last_error
RetryRaise ==
    /\ rt.pc = "exhausted"
    /\ rt' = [rt EXCEPT !.pc = "raised",
                        !.result = IF rt.last_error # <<>> THEN rt.last_error
                                   ELSE <<"RuntimeError", 0>>]
    /\ UNCHANGED <<providerVars, envVars, globalVars, handlerVars, task, historyVars, cronVars,
                   matchVars, pollVars,
                   estimatorVars, pricingVars, envMaxRetries, envBackoffSecs>>

(* ------------------------------ cron schedule -------------------------- *)
\* An expression is the sequence of its whitespace-separated fields.  The
\* day-of-week field is the sequence of its comma-separated segments, a
\* segment the sequence of the tokens around its first "-": <<>> for an
\* empty segment, <<t>> for a single value, <<s, e>> for the range s-e.
CRON_WEEKDAY_MAP ==
    [MON |-> 0, TUE |-> 1, WED |-> 2, THU |-> 3, FRI |-> 4, SAT |-> 5, SUN |-> 6]

\* the texts int() accepts for the fields of the model
CronTexts == (0 - 1)..60
IsCronInt(s) == \E n \in CronTexts : ToString(n) = s
ParseCronInt(s) == CHOOSE n \in CronTexts : ToString(n) = s

\* str.upper() on the day names the model writes in lower case
Upper(token) ==
    CASE token = "mon" -> "MON"
      [] token = "fri" -> "FRI"
      [] OTHER -> token

\* cron_value_to_weekday(token): the weekday, Monday = 0; None when it raises
CronValueToWeekday(token) ==
    IF Upper(token) = "" THEN None
    ELSE IF Upper(token) \in DOMAIN CRON_WEEKDAY_MAP THEN CRON_WEEKDAY_MAP[Upper(token)]
    ELSE IF ~IsCronInt(token) THEN None
    ELSE IF ParseCronInt(token) \in {0, 7} THEN 6
    ELSE IF 1 <= ParseCronInt(token) /\ ParseCronInt(token) <= 6
         THEN ParseCronInt(token) - 1
    ELSE None

\* SegmentDays of a parser whose ranges never wrap around the week
SegmentDays_NoWrap(segment) ==
    IF Len(segment) = 0 THEN {}
    ELSE IF Len(segment) = 2
         THEN CronValueToWeekday(segment[1])..CronValueToWeekday(segment[2])
    ELSE {CronValueToWeekday(segment[1])}

\* the weekdays one segment of the day-of-week field adds to allowed
SegmentDays(segment) ==
    IF Len(segment) = 0 THEN {}
    ELSE IF Len(segment) = 2
         THEN LET start == CronValueToWeekday(segment[1])
                  end == CronValueToWeekday(segment[2])
              IN  IF start <= end THEN start..end
                  ELSE (start..6) \cup (0..end)
    ELSE {CronValueToWeekday(segment[1])}

SegmentRaises(segment) ==
    \E k \in DOMAIN segment : CronValueToWeekday(segment[k]) = None

\* allowed_days of a field that is "*" or "?": Python's None
Unrestricted == {None}
WildcardDays == {<< <<"*">> >>, << <<"?">> >>}

\* parse_day_of_week_field(field)
ParseDayOfWeekField(field) ==
    IF field \in WildcardDays
    THEN [error |-> "none", allowed_days |-> Unrestricted]
    ELSE IF \E k \in DOMAIN field : SegmentRaises(field[k])
         THEN [error |-> "day-of-week", allowed_days |-> {}]
    ELSE [error |-> "none",
          allowed_days |-> UNION {SegmentDays(field[k]) : k \in DOMAIN field}]

\* parse_single_int_field(value, field_name, minimum, maximum): None when it raises
\* parse_single_int_field without the range test
ParseSingleIntField_AnyInt(value, minimum, maximum) ==
    IF value \in {"*", "?"} \/ ~IsCronInt(value) THEN None ELSE ParseCronInt(value)

ParseSingleIntField(value, minimum, maximum) ==
    IF value \in {"*", "?"} THEN None
    ELSE IF ~IsCronInt(value) THEN None
    ELSE IF ParseCronInt(value) < minimum \/ ParseCronInt(value) > maximum THEN None
    ELSE ParseCronInt(value)

CronFailure(message) ==
    [error |-> message, minute |-> None, hour |-> None, allowed_days |-> {}]

\* parse_cron_expression(cron_expression): (minute, hour, allowed_days), or
\* the ValueError it raises
ParseCronExpression(parts) ==
    IF Len(parts) # 6 THEN CronFailure("fields")
    ELSE IF ParseSingleIntField(parts[1], 0, 59) = None THEN CronFailure("minute")
    ELSE IF ParseSingleIntField(parts[2], 0, 23) = None THEN CronFailure("hour")
    ELSE IF parts[3] \notin {"*", "?"} THEN CronFailure("day-of-month")
    ELSE IF parts[4] # "*" THEN CronFailure("month")
    ELSE IF parts[6] # "*" THEN CronFailure("year")
    ELSE IF ParseDayOfWeekField(parts[5]).error # "none" THEN CronFailure("day-of-week")
    ELSE [error |-> "none",
          minute |-> ParseSingleIntField(parts[1], 0, 59),
          hour |-> ParseSingleIntField(parts[2], 0, 23),
          allowed_days |-> ParseDayOfWeekField(parts[5]).allowed_days]

\* dates count days from Monday 2024-01-01; date.weekday()
Weekday(date) == date % 7

\* datetime.combine(date, time(hour=hour, minute=minute))
Combine(date, hour, minute) ==
    [date |-> date, hour |-> hour, minute |-> minute, second |-> 0, microsecond |-> 0]

NoInstant == Combine(None, None, None)

\* the seconds of an instant from the first date
Seconds(t) == ((t.date * 24 + t.hour) * 60 + t.minute) * 60 + t.second

\* datetime comparison a <= b
NotAfter(a, b) ==
    \/ Seconds(a) < Seconds(b)
    \/ Seconds(a) = Seconds(b) /\ a.microsecond <= b.microsecond

\* AlreadyPassed of a scan that lets the reference instant itself through
AlreadyPassed_Equal(candidate, reference) ==
    NotAfter(candidate, reference) /\ candidate # reference

\* if candidate <= reference_time: continue
AlreadyPassed(candidate, reference) == NotAfter(candidate, reference)

\* CandidateDate of a scan that starts on the day after the reference day
CandidateDate_Tomorrow(baseline, day_offset) == baseline.date + day_offset + 1

\* candidate_date = baseline.date() + timedelta(days=day_offset), where
\* baseline = reference_time.replace(second=0, microsecond=0)
CandidateDate(baseline, day_offset) == baseline.date + day_offset

\* for day_offset in range(0, 14): the first candidate that passes both tests
RECURSIVE ScanDays(_, _, _)
ScanDays(schedule, reference, day_offset) ==
    IF day_offset >= ScanRange
    THEN [pc |-> "raised", schedule |-> schedule, error |-> "no-occurrence",
          value |-> NoInstant]
    ELSE LET baseline == [reference EXCEPT !.second = 0, !.microsecond = 0]
             candidate == Combine(CandidateDate(baseline, day_offset),
                                  schedule.hour, schedule.minute)
         IN  IF AlreadyPassed(candidate, reference)
             THEN ScanDays(schedule, reference, day_offset + 1)
             ELSE IF /\ schedule.allowed_days # Unrestricted
                     /\ Weekday(candidate.date) \notin schedule.allowed_days
                  THEN ScanDays(schedule, reference, day_offset + 1)
             ELSE [pc |-> "returned", schedule |-> schedule, error |-> "none",
                   value |-> candidate]

\* the frame of get_next_scheduled_time before the expression is parsed
CronFrame(pc) ==
    [pc |-> pc, schedule |-> CronFailure("unparsed"), error |-> "none",
     value |-> NoInstant]

\* get_next_scheduled_time(cron_expression, reference_time) as a function
NextScheduledTime(parts, reference) ==
    IF ParseCronExpression(parts).error # "none"
    THEN [pc |-> "raised", schedule |-> ParseCronExpression(parts),
          error |-> ParseCronExpression(parts).error, value |-> NoInstant]
    ELSE ScanDays(ParseCronExpression(parts), reference, 0)

\* one call of get_next_scheduled_time
GetNextScheduledTime ==
    /\ next_scheduled.pc = "call"
    /\ next_scheduled' = NextScheduledTime(cron_expression, reference_time)
    /\ UNCHANGED <<providerVars, envVars, globalVars, handlerVars, task, historyVars,
                   estimatorVars, pricingVars, retryVars, matchVars, pollVars,
                   cron_expression, reference_time>>

(* ---------------------------- specifications --------------------------- *)
BlankTags ==
    [pref |-> NoTag, down |-> NoTag, hourly |-> NoTag, up |-> NoTag, sched |-> NoTag]

NoCoverage == [lookback |-> "30", fails |-> FALSE, pages |-> <<>>]

\* a process that has just been started: no invocation yet, globals unset
InitProcess ==
    /\ now = 0
    /\ SAVINGS_PLAN_FACTOR = None
    /\ SAVINGS_PLAN_FACTOR_SOURCE = NoTag
    /\ hpc = "idle"
    /\ event = [action |-> "none", source |-> "none", schedule |-> NoTag]
    /\ run_start_time = 0
    /\ instances_to_process = <<>>
    /\ snap = [i \in Instances |-> InstanceData(i)]
    /\ skipped_due_to_schedule = 0
    /\ batch = <<>>
    /\ nextIdx = 1
    /\ task = [i \in Instances |-> IdleTask]
    /\ collected = {}
    /\ processed_count = 0
    /\ savings_records = {}
    /\ actual_savings_records = {}
    /\ summary = {}
    /\ result = [kind |-> "none", processed |-> 0, skipped |-> 0, error |-> ""]
    /\ prevRun = [action |-> "none", processed |-> {}]
    /\ recorded = [i \in Instances |-> {}]
    /\ dupRecord = FALSE
    /\ prefWrites = [i \in Instances |-> 0]
    /\ SAVINGS_PLAN_LOCK = NoTag
    /\ est = [t \in Callers |-> IdleCaller]
    /\ computations = 0
    /\ storedAt = None
    /\ delivered = {}
    /\ PRICE_CACHE = [key \in CacheKeys |-> None]
    /\ queriers = [key \in CacheKeys |-> {}]

\* the default discount settings: Manual, 0 percent
DefaultDiscountEnv ==
    /\ envDiscountMode = "manual"
    /\ envDiscountPercent = "0"
    /\ coverageData = NoCoverage

\* the frame of instance_matches_schedule before it returns
MatchFrame(pc, tags, schedule_name) ==
    [pc |-> pc, tags |-> tags, schedule_name |-> schedule_name, result |-> FALSE]

\* one call of instance_matches_schedule
MatchSchedule ==
    /\ schedule_match.pc = "call"
    /\ schedule_match' =
          [schedule_match EXCEPT
              !.pc = "returned",
              !.result = InstanceMatchesSchedule(schedule_match.tags,
                                                 schedule_match.schedule_name)]
    /\ UNCHANGED <<providerVars, envVars, globalVars, handlerVars, task, historyVars,
                   estimatorVars, pricingVars, retryVars, cronVars, pollVars>>

(* ------------------------ the type confirmation ------------------------ *)
\* time.time() of the poll counts ticks, TicksPerSecond of them to a second
Ticks(seconds) == seconds * TicksPerSecond

\* the wait of a poll that always sleeps the whole interval
SleepTime_Unshrunk(poll_interval, remaining) == Ticks(poll_interval)

\* min(poll_interval, max(remaining, 1)), in ticks
SleepTime(poll_interval, remaining) ==
    Min(Ticks(poll_interval), Max(remaining, Ticks(1)))

PollFrame(pc, timeout_seconds, poll_interval) ==
    [pc |-> pc, timeout_seconds |-> timeout_seconds, poll_interval |-> poll_interval,
     clock |-> 0, deadline |-> Ticks(timeout_seconds), remaining |-> None,
     slept |-> None, polls |-> 0, last |-> "none", error |-> "none",
     started |-> FALSE]

\* no type confirmation under way
DefaultPoll == poll = PollFrame("idle", PollTimeout, PollInterval)

pollFrame == <<providerVars, envVars, globalVars, handlerVars, task, historyVars,
               estimatorVars, pricingVars, retryVars, cronVars, matchVars>>

\* while time.time() < deadline, and the raise after the loop
PollCheck ==
    /\ poll.pc = "while"
    /\ poll' = IF poll.clock < poll.deadline
               THEN [poll EXCEPT !.pc = "describe"]
               ELSE [poll EXCEPT !.pc = "raised", !.error = "TimeoutError"]
    /\ UNCHANGED pollFrame

\* retry(client.describe_instances ...) taking d ticks, and the scan of its
\* answer: return on the desired type, else the remaining budget
PollDescribe(d, answer) ==
    /\ poll.pc = "describe"
    /\ LET time == poll.clock + d
           polled == [poll EXCEPT !.clock = time, !.polls = @ + 1, !.last = answer,
                                  !.remaining = None, !.slept = None]
       IN  poll' =
             IF answer = "error"
             THEN [polled EXCEPT !.pc = "raised", !.error = "ClientError"]
             ELSE IF answer = "desired"
             THEN [polled EXCEPT !.pc = "returned"]
             ELSE IF poll.deadline - time <= 0
             THEN [polled EXCEPT !.pc = "raised", !.error = "TimeoutError",
                                 !.remaining = poll.deadline - time]
             ELSE [polled EXCEPT !.pc = "sleep", !.remaining = poll.deadline - time]
    /\ UNCHANGED pollFrame

\* time.sleep(min(poll_interval, max(remaining, 1)))
PollSleep ==
    /\ poll.pc = "sleep"
    /\ LET seconds == SleepTime(poll.poll_interval, poll.remaining)
       IN  poll' = [poll EXCEPT !.pc = "while", !.slept = seconds,
                                !.clock = @ + seconds]
    /\ UNCHANGED pollFrame

\* process_instance after the confirmation returned: start_instances
PollStart ==
    /\ poll.pc = "returned"
    /\ poll' = [poll EXCEPT !.pc = "start", !.started = TRUE]
    /\ UNCHANGED pollFrame

\* no schedule lookup and no schedule match under way
DefaultCron ==
    /\ cron_expression = <<"0", "18", "*", "*", << <<"*">> >>, "*">>
    /\ reference_time = Combine(0, 0, 0)
    /\ next_scheduled = CronFrame("idle")
    /\ schedule_match = MatchFrame("idle", BlankTags, DEFAULT_SCHEDULE_NAME)

\* the default retry settings, no call of retry under way
DefaultRetry ==
    /\ envMaxRetries = NoTag
    /\ envBackoffSecs = NoTag
    /\ rt = RetryFrame("idle")

\* a deployment in a region of REGION_NAME_MAP, Linux instances, every
\* product in the catalog, no rate lookup under way
DefaultPricing ==
    /\ envRegion = "us-east-1"
    /\ iprofile = [i \in Instances |-> DEFAULT_PRICING_FILTERS]
    /\ catalog = FullCatalog
    /\ rate = [i \in Instances |-> RateFrame("done")]

\* what the rate lookups of one scale-down give: <<>> when one raised
RateOutcomes == {<<>>} \cup {<<o, d>> : o \in 0..MaxRate, d \in 0..MaxRate}

ScheduledEvents ==
    {[action |-> a, source |-> "aws.events", schedule |-> NoTag] : a \in VALID_ACTIONS}

TaskStep(i, rate_outcomes) ==
    \/ TaskBegin(i)
    \/ \E ok \in BOOLEAN : TaskTagPreferred(i, ok)
    \/ \E rates \in rate_outcomes, ok \in BOOLEAN : TaskSavings(i, rates, ok)
    \/ \E ok \in BOOLEAN : TaskStop(i, ok)
    \/ \E ok \in BOOLEAN : TaskWaitStopped(i, ok)
    \/ \E ok \in BOOLEAN : TaskModify(i, ok)
    \/ \E ok \in BOOLEAN : TaskWaitType(i, ok)
    \/ \E ok \in BOOLEAN : TaskStart(i, ok)
    \/ \E ok \in BOOLEAN : TaskWaitRunning(i, ok)
    \/ \E ok \in BOOLEAN : TaskSnapshot(i, ok)

\* Spec: one managed instance through a series of invocations, the clock
\* running, any provider call failing after its retries
Init ==
    /\ reservations = <<"i-1">>
    /\ itype \in {f \in [Instances -> Types] : \A i \in Instances \ {"i-1"} : f[i] = "m5.large"}
    /\ istate \in {f \in [Instances -> {"running", "stopped"}] :
                      \A i \in Instances \ {"i-1"} : f[i] = "running"}
    /\ itags \in {f \in [Instances -> {BlankTags, [BlankTags EXCEPT !.pref = " "]}] :
                     \A i \in Instances \ {"i-1"} : f[i] = BlankTags}
    /\ FAIL_FAST \in BOOLEAN
    /\ BATCH_SIZE = 1
    /\ envMaxConcurrent = NoTag
    /\ DefaultDiscountEnv
    /\ DefaultPricing
    /\ DefaultRetry
    /\ DefaultCron
    /\ invLeft = MaxInvocations
    /\ InitProcess
    /\ DefaultPoll

Next ==
    \/ \E ev \in ScheduledEvents : Invoke(ev, "ok")
    \/ \E i \in Instances : TaskStep(i, RateOutcomes)
    \/ \E i \in Instances : Collect(i)
    \/ Finish
    \/ AbortExit
    \/ Tick

Spec == Init /\ [][Next]_vars

\* SpecBatch: one invocation over a fleet of three, for every batch size,
\* concurrency setting and fail-fast setting
FreshTags == BlankTags
DownsizedTags ==
    [BlankTags EXCEPT !.pref = "m5.large", !.down = FormatUtc(0), !.hourly = FormatHourly(1)]

Fleets ==
    {[type |-> [i \in Instances |-> "m5.large"],
      state |-> [i \in Instances |-> "running"],
      tags |-> [i \in Instances |-> FreshTags]],
     [type |-> [i \in Instances |-> "t3.medium"],
      state |-> [i \in Instances |-> "running"],
      tags |-> [i \in Instances |-> DownsizedTags]],
     [type |-> [i \in Instances |-> IF i = "i-2" THEN "t3.medium" ELSE "m5.large"],
      state |-> [i \in Instances |-> IF i = "i-3" THEN "stopped" ELSE "running"],
      tags |-> [i \in Instances |->
                  IF i = "i-2" THEN DownsizedTags
                  ELSE IF i = "i-3" THEN [FreshTags EXCEPT !.sched = "peak,off-hours"]
                  ELSE FreshTags]]}

ConcurrencySettings == {NoTag, "0", "2", "25"}

\* the rate lookups of SpecBatch: one raised, or the larger type costs more
BatchRateOutcomes == {<<>>, <<MaxRate, 0>>}

BatchEvents ==
    {[action |-> a, source |-> s, schedule |-> n] :
        a \in VALID_ACTIONS \cup {"reboot"},
        s \in {"aws.events", "manual", NoTag},
        n \in {NoTag, " Peak "}}

InitBatch ==
    /\ reservations = <<"i-1", "i-2", "i-1", "i-3">>
    /\ \E fl \in Fleets : itype = fl.type /\ istate = fl.state /\ itags = fl.tags
    /\ FAIL_FAST \in BOOLEAN
    /\ BATCH_SIZE \in 1..MaxBatchSize
    /\ envMaxConcurrent \in ConcurrencySettings
    /\ DefaultDiscountEnv
    /\ DefaultPricing
    /\ DefaultRetry
    /\ DefaultCron
    /\ invLeft = 1
    /\ InitProcess
    /\ DefaultPoll

NextBatchRun ==
    \/ \E ev \in BatchEvents, describe \in {"ok"} \cup Errors : Invoke(ev, describe)
    \/ \E i \in Instances : TaskStep(i, BatchRateOutcomes)
    \/ \E i \in Instances : Collect(i)
    \/ NextBatch
    \/ Finish
    \/ AbortExit

SpecBatch == InitBatch /\ [][NextBatchRun]_vars

\* SpecFactor: the callers of get_savings_plan_factor in one process, in any
\* interleaving, for valid and invalid discount settings
DiscountPercents == {"0", "25", "100", "150", "abc", "nan"}

CoverageReports ==
    {NoCoverage,
     [lookback |-> "30", fails |-> FALSE, pages |-> <<[savings |-> 1, cost |-> 3]>>],
     [lookback |-> "30", fails |-> FALSE, pages |-> <<[savings |-> 3, cost |-> 0]>>],
     [lookback |-> "0", fails |-> FALSE, pages |-> <<[savings |-> 1, cost |-> 3]>>],
     [lookback |-> "120", fails |-> FALSE, pages |-> <<[savings |-> 1, cost |-> 3]>>]}

\* no fleet and no invocation: only the shared state is exercised
InitQuietFleet ==
    /\ reservations = <<>>
    /\ itype = [i \in Instances |-> "m5.large"]
    /\ istate = [i \in Instances |-> "running"]
    /\ itags = [i \in Instances |-> BlankTags]
    /\ FAIL_FAST = FALSE
    /\ BATCH_SIZE = 1
    /\ envMaxConcurrent = NoTag
    /\ invLeft = 0

InitFactor ==
    /\ InitQuietFleet
    /\ envDiscountMode \in {"manual", "coverage"}
    /\ envDiscountPercent \in DiscountPercents
    /\ coverageData \in CoverageReports
    /\ DefaultPricing
    /\ DefaultRetry
    /\ DefaultCron
    /\ InitProcess
    /\ DefaultPoll

NextFactor ==
    \/ \E t \in Callers : FactorEnter(t)
    \/ \E t \in Callers, outage \in BOOLEAN : FactorCoverage(t, outage)
    \/ \E t \in Callers : FactorManual(t)

SpecFactor == InitFactor /\ [][NextFactor]_vars

\* SpecPrice: the worker tasks of one batch resolving the rates of a
\* scale-down, for every profile, catalog and region setting
Regions == {"us-east-1", "xx-test-1", NoTag}

InitPrice ==
    /\ InitQuietFleet
    /\ DefaultDiscountEnv
    /\ envRegion \in Regions
    /\ iprofile \in [Instances -> Profiles]
    /\ catalog \in Catalogs
    /\ rate = [i \in Instances |-> RateFrame("lookup")]
    /\ DefaultRetry
    /\ DefaultCron
    /\ InitProcess
    /\ DefaultPoll

NextPrice ==
    \/ \E i \in Instances : RateLookup(i)
    \/ \E i \in Instances, ok \in BOOLEAN : RateQuery(i, ok)
    \/ \E i \in Instances : RateStore(i)

SpecPrice == InitPrice /\ [][NextPrice]_vars

\* SpecRetry: one call of retry, for every setting of the attempt count and
\* the backoff, every attempt returning or raising
RetrySettings == {NoTag, "0", "1", "2"}
BackoffSettings == {NoTag, "-1", "0", "2"}

InitRetry ==
    /\ InitQuietFleet
    /\ DefaultDiscountEnv
    /\ DefaultPricing
    /\ envMaxRetries \in RetrySettings
    /\ envBackoffSecs \in BackoffSettings
    /\ rt = RetryFrame("call")
    /\ DefaultCron
    /\ InitProcess
    /\ DefaultPoll

NextRetry ==
    \/ \E outcome \in {"ok"} \cup Errors : RetryAttempt(outcome)
    \/ RetrySleep
    \/ RetryRaise

SpecRetry == InitRetry /\ [][NextRetry]_vars

\* SpecCron: one call of get_next_scheduled_time, for expressions that parse
\* and expressions that do not, and reference instants on every weekday, at,
\* before and after the scheduled time of day
MinuteFields == {"0", "30", "60", "*"}
HourFields == {"0", "18", "24"}
DayOfWeekFields ==
    {<< <<"*">> >>, << <<"?">> >>,
     << <<"MON", "FRI">> >>, << <<"FRI", "MON">> >>,
     << <<"sat">>, <<"0">> >>, << <<"3">> >>,
     << <<>>, <<>> >>, << <<"MON", "8">> >>}
CronExpressions ==
    {<<m, h, "*", "*", d, "*">> : m \in MinuteFields, h \in HourFields,
                                  d \in DayOfWeekFields}
    \cup {<<"0", "18", "*", "*", << <<"MON", "FRI">> >> >>,
          <<"0", "18", "1", "*", << <<"*">> >>, "*">>,
          <<"0", "18", "?", "*", << <<"*">> >>, "*">>,
          <<"0", "18", "*", "1", << <<"*">> >>, "*">>,
          <<"0", "18", "*", "*", << <<"*">> >>, "2024">>,
          <<"0", "*", "*", "*", << <<"*">> >>, "*">>,
          <<"?", "18", "*", "*", << <<"*">> >>, "*">>,
          <<"-1", "18", "*", "*", << <<"*">> >>, "*">>,
          <<"MON", "18", "*", "*", << <<"*">> >>, "*">>,
          <<"0", "18", "*", "?", << <<"*">> >>, "*">>,
          <<"0", "18", "*", "*", << <<"*">> >>, "?">>,
          <<"0", "18", "*", "*", << <<"*">> >>, "*", "*">>}
ReferenceTimes ==
    [date : 0..MaxDate, hour : {0, 10, 18, 19}, minute : {0, 30},
     second : {0, 30}, microsecond : {0, 1}]

\* SpecWeekdays: one call of get_next_scheduled_time for every day-of-week
\* field made of one range or one value, over day names and the numbers 0-8
DayTokens ==
    {"MON", "TUE", "WED", "THU", "FRI", "SAT", "SUN", "fri",
     "0", "1", "2", "3", "4", "5", "6", "7", "8"}
RangeFields ==
    {<< <<start, end>> >> : start \in DayTokens, end \in DayTokens}
    \cup {<< <<token>> >> : token \in DayTokens}

InitWeekdays ==
    /\ InitQuietFleet
    /\ DefaultDiscountEnv
    /\ DefaultPricing
    /\ DefaultRetry
    /\ cron_expression \in {<<"0", "18", "*", "*", d, "*">> : d \in RangeFields}
    /\ reference_time \in {Combine(date, 18, 0) : date \in 0..MaxDate}
    /\ next_scheduled = CronFrame("call")
    /\ schedule_match = MatchFrame("idle", BlankTags, DEFAULT_SCHEDULE_NAME)
    /\ InitProcess
    /\ DefaultPoll

InitCron ==
    /\ InitQuietFleet
    /\ DefaultDiscountEnv
    /\ DefaultPricing
    /\ DefaultRetry
    /\ cron_expression \in CronExpressions
    /\ reference_time \in ReferenceTimes
    /\ next_scheduled = CronFrame("call")
    /\ schedule_match = MatchFrame("idle", BlankTags, DEFAULT_SCHEDULE_NAME)
    /\ InitProcess
    /\ DefaultPoll

NextCron == GetNextScheduledTime

SpecCron == InitCron /\ [][NextCron]_vars

SpecWeekdays == InitWeekdays /\ [][NextCron]_vars

\* SpecMatch: one call of instance_matches_schedule, for every schedule tag
\* text and every schedule name an event can ask for
ScheduleTagTexts ==
    {NoTag, "", "  ", " , ", "peak", "default", "all", " Peak ",
     "peak,off-hours", "Night , ALL", "night,,Default"}
EventSchedules ==
    {NoTag, "  ", " Peak ", "all", "default", "night", "peak", "off-hours"}

InitMatch ==
    /\ InitQuietFleet
    /\ DefaultDiscountEnv
    /\ DefaultPricing
    /\ DefaultRetry
    /\ cron_expression = <<"0", "18", "*", "*", << <<"*">> >>, "*">>
    /\ reference_time = Combine(0, 0, 0)
    /\ next_scheduled = CronFrame("idle")
    /\ \E text \in ScheduleTagTexts, n \in EventSchedules :
          schedule_match = MatchFrame("call", [BlankTags EXCEPT !.sched = text],
                                      NormalizeScheduleName(n))
    /\ InitProcess
    /\ DefaultPoll

NextMatch == MatchSchedule

SpecMatch == InitMatch /\ [][NextMatch]_vars

\* SpecPoll: one call of wait_for_instance_type, for every answer and
\* duration of its describe calls
DescribeAnswers == {"desired", "other", "error"}

InitPoll ==
    /\ InitQuietFleet
    /\ DefaultDiscountEnv
    /\ DefaultPricing
    /\ DefaultRetry
    /\ DefaultCron
    /\ InitProcess
    /\ \E timeout_seconds \in 1..PollTimeout, poll_interval \in 1..PollInterval :
          poll = PollFrame("while", timeout_seconds, poll_interval)

NextPoll ==
    \/ PollCheck
    \/ \E d \in 0..MaxDescribe, answer \in DescribeAnswers : PollDescribe(d, answer)
    \/ PollSleep
    \/ PollStart

SpecPoll == InitPoll /\ [][NextPoll]_vars

\* every call the task makes returns or raises: the poll is always scheduled
SpecPollFair == SpecPoll /\ WF_vars(NextPoll)

\* SpecSoft: one invocation over two instances to downsize and one to
\* restore, for valid and invalid discount settings, every pricing, provider
\* and enumeration failure
InitSoft ==
    /\ reservations = <<"i-1", "i-2", "i-3">>
    /\ itype = [i \in Instances |-> IF i = "i-2" THEN "t3.medium" ELSE "m5.large"]
    /\ istate = [i \in Instances |-> IF i = "i-3" THEN "stopped" ELSE "running"]
    /\ itags = [i \in Instances |-> IF i = "i-2" THEN DownsizedTags ELSE FreshTags]
    /\ FAIL_FAST \in BOOLEAN
    /\ BATCH_SIZE \in 1..MaxBatchSize
    /\ envMaxConcurrent = NoTag
    /\ envDiscountMode \in {"manual", "coverage"}
    /\ envDiscountPercent \in {"0", "25", "150"}
    /\ coverageData \in CoverageReports
    /\ DefaultPricing
    /\ DefaultRetry
    /\ DefaultCron
    /\ invLeft = 1
    /\ InitProcess
    /\ DefaultPoll

SpecSoft == InitSoft /\ [][NextBatchRun]_vars

\* SpecGate: two invocations in a row over the fleet of SpecSoft, accepted or
\* rejected, under the default discount settings
InitGate ==
    /\ reservations = <<"i-1", "i-2", "i-3">>
    /\ itype = [i \in Instances |-> IF i = "i-2" THEN "t3.medium" ELSE "m5.large"]
    /\ istate = [i \in Instances |-> IF i = "i-3" THEN "stopped" ELSE "running"]
    /\ itags = [i \in Instances |-> IF i = "i-2" THEN DownsizedTags ELSE FreshTags]
    /\ FAIL_FAST \in BOOLEAN
    /\ BATCH_SIZE = 1
    /\ envMaxConcurrent = NoTag
    /\ DefaultDiscountEnv
    /\ DefaultPricing
    /\ DefaultRetry
    /\ DefaultCron
    /\ invLeft = 2
    /\ InitProcess
    /\ DefaultPoll

SpecGate == InitGate /\ [][NextBatchRun]_vars

(* -------------------------------- claims ------------------------------- *)
Queued(i) == i \in SeqToSet(instances_to_process)
ProcessedTasks == {i \in Instances : Queued(i) /\ task[i].pc = "done_ok"}

\* C1: a scale-down invocation that finds an instance already at the
\* downsize type (as a completed scale-down leaves it) returns not-processed
\* for it, leaves its type at the downsize type and leaves the value of its
\* PreferredInstanceType tag as it was.
C1_ScaleDownIdempotent ==
    \A i \in Instances :
        (event.action = "scaledown" /\ Queued(i)
         /\ snap[i].current_type = DEFAULT_DOWNSIZE_TYPE)
        => /\ task[i].pc \in QueuedPcs \cup {"done_noop"}
           /\ itype[i] = DEFAULT_DOWNSIZE_TYPE
           /\ itags[i].pref = snap[i].tags.pref
           /\ (hpc = "returned" => task[i].pc = "done_noop" /\ i \notin ProcessedTasks)
           /\ (hpc = "returned" => result.processed = Cardinality(ProcessedTasks))

\* the second of two scale-downs has returned, the first having downsized i-1
C1_Witness ==
    /\ prevRun.action = "scaledown" /\ "i-1" \in prevRun.processed
    /\ event.action = "scaledown" /\ hpc = "returned"
    /\ task["i-1"].pc = "done_noop"
    /\ result.processed = 0
    /\ itags["i-1"].pref = "m5.large"

\* C2 as stated: once the PreferredInstanceType tag holds a non-empty value,
\* no step writes that tag again.
C2_NonEmptyNeverWritten ==
    [][\A i \in Instances :
          ~Falsy(itags[i].pref)
          => prefWrites'[i] = prefWrites[i] /\ itags'[i].pref = itags[i].pref]_vars

\* C2 amended: once the PreferredInstanceType tag holds a value that is not
\* blank (non-empty after trimming whitespace), no scale-down, complete or
\* failed part-way, writes that tag again: its value stays.
C2_NonBlankNeverWritten ==
    [][\A i \in Instances :
          PreferredType(itags[i]) # ""
          => prefWrites'[i] = prefWrites[i] /\ itags'[i].pref = itags[i].pref]_vars

\* a scale-down went through with the tag set before it, after an earlier
\* scale-down had written the tag
C2_Witness ==
    /\ event.action = "scaledown" /\ task["i-1"].pc = "done_ok"
    /\ snap["i-1"].tags.pref = "m5.large"
    /\ itags["i-1"].pref = "m5.large"
    /\ prefWrites["i-1"] = 1
    /\ invLeft <= MaxInvocations - 3

\* C3: at most one actual-savings record is returned per recorded scale-down
\* timestamp: once a record was returned for the timestamp on the instance,
\* no later scale-up returns another for it.
C3_OneRecordPerScaleDown == ~dupRecord

\* a later scale-up restored the instance whose recorded timestamp already
\* has its record, and returned none
C3_Witness ==
    /\ event.action = "scaleup" /\ task["i-1"].pc = "done_ok"
    /\ task["i-1"].actual = {}
    /\ ParseTimestamp(snap["i-1"].tags.down) # None
    /\ ParseTimestamp(snap["i-1"].tags.down) \in recorded["i-1"]

\* the enumerated tags say the last scale-up is at or after the last scale-down
AlreadyCounted(tags) ==
    /\ ParseTimestamp(tags.up) # None
    /\ ParseTimestamp(tags.down) # None
    /\ ParseTimestamp(tags.up) >= ParseTimestamp(tags.down)

\* C4: a scale-up of an instance whose last-scale-up timestamp tag is at or
\* after its last-scale-down timestamp tag produces no actual-savings record
\* for it and does not rewrite the last-scale-up tag.
C4_DoubleCountingGuard ==
    \A i \in Instances :
        (event.action = "scaleup" /\ Queued(i) /\ AlreadyCounted(snap[i].tags))
        => /\ task[i].actual = {}
           /\ itags[i].up = snap[i].tags.up
           /\ \A r \in actual_savings_records : r.instance_id # i

\* such an instance went through the whole restore, same-second stamps included
C4_Witness ==
    /\ event.action = "scaleup" /\ task["i-1"].pc = "done_ok"
    /\ AlreadyCounted(snap["i-1"].tags)
    /\ snap["i-1"].tags.up = snap["i-1"].tags.down
    /\ hpc = "returned" /\ result.processed = 1 /\ summary # {}

\* the run went through validation and enumeration and had work to do
RunHadWork == instances_to_process # <<>>

\* the batch (0, 1, ...) that chunks puts position k of the list in
BatchOf(k) == (k - 1) \div EffectiveBatchSize

C6_FailFastAborts ==
    (FAIL_FAST /\ \E i \in collected : task[i].pc = "raised")
    => /\ hpc \in {"abort", "raised"}
       /\ (hpc = "raised" => result = Raised("task_failed"))
       /\ summary = {}
       /\ \A k \in 1..Len(instances_to_process) :
             k >= nextIdx => task[instances_to_process[k]].pc = "unsubmitted"

\* the failure left the invocation with a batch still to run
C6_Witness ==
    /\ FAIL_FAST /\ hpc = "raised" /\ result.error = "task_failed"
    /\ nextIdx <= Len(instances_to_process)
    /\ \E i \in collected : task[i].pc = "raised"

\* C7: no task of a later batch is submitted or started before every task of
\* each earlier batch has returned or raised, for every batch size and
\* concurrency limit.
C7_BatchesSequential ==
    \A k, m \in 1..Len(instances_to_process) :
        (BatchOf(k) < BatchOf(m)
         /\ task[instances_to_process[m]].pc # "unsubmitted")
        => task[instances_to_process[k]].pc \in FinalPcs

\* a task of the second batch is running
C7_Witness ==
    \E m \in 1..Len(instances_to_process) :
        /\ BatchOf(m) = 1
        /\ instances_to_process[m] \in Running
        /\ BATCH_SIZE = 2

\* the settings MAX_CONCURRENT_OPERATIONS may hold
ConcurrencyTexts == {NoTag, "abc", ""} \cup {ToString(n) : n \in IntTexts}

\* get_concurrency_limit gives a limit within [1,20] for every setting
LimitAlwaysClamped ==
    \A raw \in ConcurrencyTexts :
        GetConcurrencyLimit(raw) \in MinConcurrency..MaxConcurrency

\* C8: at every moment the number of instance tasks running at once is at
\* most the concurrency limit and at most the batch size, and the limit is
\* within [1,20] whatever value is configured.
C8_BoundedParallelism ==
    /\ Cardinality(Running) <= GetConcurrencyLimit(envMaxConcurrent)
    /\ Cardinality(Running) <= EffectiveBatchSize
    /\ LimitAlwaysClamped

\* the limit, clamped up from 0 to 1, holds back a submitted task
C8_Witness ==
    /\ envMaxConcurrent = "0"
    /\ Cardinality(Running) = 1
    /\ \E i \in Instances : InBatch(i) /\ task[i].pc = "pending"

\* C9 as stated: the savings-plan factor is computed exactly once per process
\* lifetime; the manual/coverage computation is entered at most once, however
\* many callers there are.
C9_ComputationRunsOnce == computations <= 1

Computing == {t \in Callers : est[t].pc # "idle"}

\* C9 amended: under concurrent first use at most one caller at a time is in
\* the computation; once a computation has stored a factor no computation is
\* running and none begins again, and every caller that was returned a value
\* received the stored factor and its source label. (A computation that
\* raises stores nothing, and the next caller computes again.)
C9_StoredOnce ==
    /\ Cardinality(Computing) <= 1
    /\ SAVINGS_PLAN_FACTOR # None => Computing = {} /\ storedAt = computations
    /\ SAVINGS_PLAN_FACTOR = None => storedAt = None /\ delivered = {}
    /\ \A d \in delivered :
          d.factor = SAVINGS_PLAN_FACTOR /\ d.source = SAVINGS_PLAN_FACTOR_SOURCE

\* every caller has used the estimator, the first computation raised, the
\* second stored the coverage factor, and the callers received it
C9_Witness ==
    /\ \A t \in Callers : est[t].calls >= 1
    /\ storedAt = 2 /\ computations = 2
    /\ SAVINGS_PLAN_FACTOR_SOURCE = "coverage"
    /\ delivered = {[factor |-> SAVINGS_PLAN_FACTOR, source |-> "coverage"]}

\* C10: of the calls to get_hourly_rate with one cache key (instance type and
\* profile) in one process, worker tasks of one batch included, at most one
\* queries the catalog.
C10_NoSecondQuery == \A key \in CacheKeys : Cardinality(queriers[key]) <= 1

RegionKnown ==
    GetRegion(envRegion) # "unknown" /\ GetLocation(GetRegion(envRegion)) # "Unknown"

\* the prices of the products the first filter variant with a priced match
\* selects
FirstMatchPrices(instance_type, pricing_filters) ==
    LET variants == FilterVariants(pricing_filters)
        priced(k) == {p \in GetProducts(catalog, instance_type, variants[k]) :
                         p.price # None}
        hits == {k \in DOMAIN variants : priced(k) # {}}
    IN  IF hits = {} THEN {}
        ELSE {p.price : p \in priced(CHOOSE k \in hits : \A j \in hits : k <= j)}

\* C11: a rate lookup that finds no product for the full filter set of the
\* requested profile but finds one for a relaxed variant returns the price of
\* that variant, and the cache entry it writes is keyed by the requested
\* (type, operating system, preinstalled software, license model): every
\* key the cache holds is the key of a call that was made, never the key of
\* a relaxed profile.
C11_CachedUnderRequestedKey ==
    /\ \A key \in CacheKeys :
          PRICE_CACHE[key] # None
          => \E i \in Instances, c \in 1..2 :
                /\ c <= rate[i].call
                /\ key = BuildPricingCacheKey(RateType(i, c), iprofile[i])
                /\ PRICE_CACHE[key] \in FirstMatchPrices(RateType(i, c), iprofile[i])
    /\ RegionKnown
       => \A i \in Instances, c \in 1..2 :
             c <= Len(rate[i].got)
             => /\ rate[i].got[c] \in FirstMatchPrices(RateType(i, c), iprofile[i])
                /\ PRICE_CACHE[RateKey(i, c)] = rate[i].got[c]

\* the Windows "License Included" profile priced from the product listed
\* under "No License required", and cached under the License Included key
C11_Witness ==
    /\ iprofile["i-1"] = WindowsFilters /\ catalog = RelaxedCatalog
    /\ Len(rate["i-1"].got) >= 1
    /\ rate["i-1"].got[1] = OnDemandPrice("m5.large")
    /\ PRICE_CACHE[<<"m5.large", "Windows", "NA", "License Included">>]
          = OnDemandPrice("m5.large")
    /\ PRICE_CACHE[<<"m5.large", "Windows", "NA", "No License required">>] = None
    /\ GetProducts(catalog, "m5.large", BuildFilters(WindowsFilters)) = {}

RetryOver == rt.pc \in {"returned", "raised"}
Attempts == Len(rt.outcomes)

\* C12: retry calls the provider operation at most MAX_RETRIES times; it
\* returns the result of the first attempt that succeeds, making no attempt
\* after it; when every attempt fails it raises the error of the last one.
C12_RetryAttempts ==
    /\ Attempts <= MAX_RETRIES
    /\ \A k \in 1..(Attempts - 1) : rt.outcomes[k] # "ok"
    /\ rt.pc = "returned"
       => rt.outcomes[Attempts] = "ok" /\ rt.result = <<"value", Attempts>>
    /\ rt.pc = "raised"
       => /\ Attempts = MAX_RETRIES
          /\ rt.outcomes[Attempts] \in Errors
          /\ rt.result = <<rt.outcomes[Attempts], Attempts>>

\* two attempts raised, the third returned
C12_Witness ==
    /\ rt.pc = "returned" /\ MAX_RETRIES = 3
    /\ rt.outcomes = <<"ClientError", "Exception", "ok">>
    /\ rt.result = <<"value", 3>>

\* every attempt raised and the error of the last one came out
C12_WitnessRaised ==
    /\ rt.pc = "raised" /\ MAX_RETRIES = 3
    /\ rt.outcomes = <<"ClientError", "ClientError", "Exception">>
    /\ rt.result = <<"Exception", 3>>

\* C13: the backoff is linear and falls only between attempts: the sleep
\* after failed attempt k lasts BACKOFF_SECS * k, and a call of retry that is
\* over has slept once for each attempt but the last: not after the attempt
\* that succeeded, and not after the final failed attempt.
C13_BackoffOnlyBetweenAttempts ==
    /\ \A k \in DOMAIN rt.slept : rt.slept[k] = BACKOFF_SECS * k
    /\ RetryOver => Len(rt.slept) = Attempts - 1

SavingsFailed(i) == task[i].pricing_error \in {"pricing", "factor"}

\* C14: in scale-down a failure while computing savings (the pricing profile,
\* a rate lookup, the discount factor) is caught: the step that computes
\* savings always hands over to the stop/modify/start sequence, and an
\* instance whose savings computation failed has no savings record but is
\* counted as processed when its sequence succeeds.
C14_SavingsSoftFailure ==
    /\ [](\A i \in Instances :
            SavingsFailed(i)
            => /\ task[i].savings = {}
               /\ \A r \in savings_records : r.instance_id # i
               /\ (task[i].pc = "done_ok" /\ i \in collected => processed_count >= 1))
    /\ [][\A i \in Instances :
            task[i].pc = "savings" /\ task'[i].pc # "savings"
            => task'[i].pc = SequenceEntry(snap[i])]_vars

\* the discount percentage is invalid: the factor raised inside the try
\* block, i-1 was downsized all the same and counted, without a record
C14_Witness ==
    /\ event.action = "scaledown"
    /\ task["i-1"].pricing_error = "factor"
    /\ task["i-1"].pc = "done_ok" /\ "i-1" \in collected
    /\ itype["i-1"] = DEFAULT_DOWNSIZE_TYPE
    /\ processed_count >= 1
    /\ \A r \in savings_records : r.instance_id # "i-1"

PassedValidation == event.action \in VALID_ACTIONS /\ EventSource(event) # "manual"

\* C15: an invocation that passes input validation and runs with fail-fast
\* off always ends by returning a result that carries the processed and the
\* skipped count, whatever happens to instances or to savings recording; a
\* failed enumeration returns zero counts and an error code, it does not raise.
C15_AlwaysReturnsCounts ==
    /\ (PassedValidation /\ ~FAIL_FAST) => hpc # "raised"
    /\ hpc = "returned"
       => /\ result.kind = "return"
          /\ result.processed = processed_count
          /\ result.skipped = skipped_due_to_schedule

InvalidAction(ev) == ev.action \notin VALID_ACTIONS

\* C16: input validation comes before any effect: an invocation whose action
\* is neither scaledown nor scaleup raises the invalid-action error, one whose
\* source is "manual" (or missing) is rejected, and in both cases no instance
\* is enumerated or handed to a task, no tag, state or type changes and no
\* summary is recorded.
C16_ValidationBeforeEffects ==
    /\ [](hpc # "idle" /\ ~PassedValidation
          => /\ hpc = "raised" /\ result.kind = "raise"
             /\ result.error = (IF InvalidAction(event) THEN "invalid_action"
                                ELSE "manual_blocked")
             /\ instances_to_process = <<>> /\ batch = <<>>
             /\ \A i \in Instances : task[i] = IdleTask
             /\ summary = {})
    /\ [][(event'.action \notin VALID_ACTIONS \/ EventSource(event') = "manual")
          => UNCHANGED <<itype, istate, itags>>]_vars

\* a scale-down has downsized i-1; the manual scale-up that followed was
\* rejected and left the fleet as the scale-down had left it
C16_Witness ==
    /\ prevRun.action = "scaledown" /\ "i-1" \in prevRun.processed
    /\ event.action = "scaleup" /\ event.source = "manual"
    /\ hpc = "raised" /\ result.error = "manual_blocked"
    /\ itype["i-1"] = DEFAULT_DOWNSIZE_TYPE /\ itags["i-1"].pref = "m5.large"
    /\ itags["i-1"].up = NoTag

\* C17: in coverage mode a failure of the coverage computation (Cost Explorer
\* raising, savings + cost <= 0, a lookback outside 1..90) does not leave the
\* estimator: the same call goes on to the manual computation, and a factor
\* stored after that is the manual factor under the label "manual".
C17_CoverageFallsBack ==
    /\ [][\A t \in Callers :
            est[t].pc = "coverage" /\ est'[t].pc # "coverage"
            => \/ /\ est'[t].pc = "manual"
                  /\ SAVINGS_PLAN_FACTOR' = None /\ SAVINGS_PLAN_LOCK' = t
               \/ /\ est'[t].pc = "idle"
                  /\ SAVINGS_PLAN_FACTOR' # None
                  /\ SAVINGS_PLAN_FACTOR_SOURCE' = "coverage"]_vars
    /\ [][\A t \in Callers :
            (est[t].pc = "manual" /\ envDiscountMode = "coverage"
             /\ SAVINGS_PLAN_FACTOR' # None)
            => /\ SAVINGS_PLAN_FACTOR' = GetManualDiscountFactor(envDiscountPercent)
               /\ SAVINGS_PLAN_FACTOR_SOURCE' = "manual"
               /\ [factor |-> SAVINGS_PLAN_FACTOR', source |-> "manual"] \in delivered']_vars

\* coverage mode, the coverage window was empty, and the 25 percent of the
\* manual setting was stored and returned under "manual"
C17_Witness ==
    /\ envDiscountMode = "coverage" /\ coverageData = NoCoverage
    /\ envDiscountPercent = "25"
    /\ SAVINGS_PLAN_FACTOR = 7500 /\ SAVINGS_PLAN_FACTOR_SOURCE = "manual"
    /\ delivered = {[factor |-> 7500, source |-> "manual"]}

\* C18: every factor the estimator stores lies in (0, 1], for every manual
\* percentage it accepts and every coverage result; a percentage outside
\* [0, 100] is rejected and stores no factor.
C18_FactorInHalfOpenUnit ==
    SAVINGS_PLAN_FACTOR # None
    => /\ SAVINGS_PLAN_FACTOR # NaN
       /\ SAVINGS_PLAN_FACTOR > 0 /\ SAVINGS_PLAN_FACTOR <= FactorScale

\* C19: for every expression with a fixed minute and hour, "*" for month and
\* year, "*" or "?" for day-of-month and a wildcard day-of-week, and every
\* reference instant, get_next_scheduled_time returns, and the instant it
\* returns is strictly later than the reference instant.
FixedTimeAnyDay(parts) ==
    /\ Len(parts) = 6
    /\ \E n \in 0..59 : ToString(n) = parts[1]
    /\ \E n \in 0..23 : ToString(n) = parts[2]
    /\ parts[3] \in {"*", "?"} /\ parts[4] = "*" /\ parts[6] = "*"
    /\ parts[5] \in WildcardDays

Answered == next_scheduled.pc \in {"returned", "raised"}

C19_StrictlyAfterReference ==
    Answered /\ FixedTimeAnyDay(cron_expression)
    => /\ next_scheduled.pc = "returned"
       /\ ~NotAfter(next_scheduled.value, reference_time)

\* the reference instant is exactly the scheduled time of day, and the
\* answer is the same time on the next day
C19_Witness ==
    /\ next_scheduled.pc = "returned"
    /\ FixedTimeAnyDay(cron_expression)
    /\ reference_time = Combine(reference_time.date, 18, 0)
    /\ cron_expression[1] = "0" /\ cron_expression[2] = "18"
    /\ next_scheduled.value = Combine(reference_time.date + 1, 18, 0)

\* C20: for an expression that parses, get_next_scheduled_time returns the
\* earliest instant at the expression's hour:minute:00 that is strictly after
\* the reference instant and on an allowed weekday, among the reference day
\* and the 13 days after it; it raises the no-occurrence error exactly when
\* there is no such instant.  MON-FRI 18:00 at Monday 10:00 gives that day
\* at 18:00, at Monday 19:00 it gives Tuesday 18:00.
Occurrences ==
    LET schedule == ParseCronExpression(cron_expression)
    IN  {c \in {Combine(d, schedule.hour, schedule.minute) :
                    d \in reference_time.date..(reference_time.date + 13)} :
            /\ ~NotAfter(c, reference_time)
            /\ \/ schedule.allowed_days = Unrestricted
               \/ Weekday(c.date) \in schedule.allowed_days}

WeekdaysAtSix == <<"0", "18", "*", "*", << <<"MON", "FRI">> >>, "*">>

C20_EarliestOccurrence ==
    Answered /\ ParseCronExpression(cron_expression).error = "none"
    => /\ next_scheduled.pc = "returned" <=> Occurrences # {}
       /\ next_scheduled.pc = "returned"
          => /\ next_scheduled.value \in Occurrences
             /\ \A o \in Occurrences : NotAfter(next_scheduled.value, o)
       /\ next_scheduled.pc = "raised" => next_scheduled.error = "no-occurrence"
       /\ cron_expression = WeekdaysAtSix /\ reference_time = Combine(0, 10, 0)
          => next_scheduled.value = Combine(0, 18, 0)
       /\ cron_expression = WeekdaysAtSix /\ reference_time = Combine(0, 19, 0)
          => next_scheduled.value = Combine(1, 18, 0)

\* Friday after 18:00 with MON-FRI: Saturday and Sunday are passed over
C20_Witness ==
    /\ next_scheduled.pc = "returned"
    /\ cron_expression = WeekdaysAtSix
    /\ Weekday(reference_time.date) = 4 /\ reference_time.hour = 19
    /\ next_scheduled.value = Combine(reference_time.date + 3, 18, 0)

\* C21: a day-of-week range start-end allows exactly the weekdays from start
\* to end of the week MON..SUN when start is not after end, and exactly
\* start..SUN plus MON..end when start is after end; FRI-MON allows exactly
\* {FRI, SAT, SUN, MON}; the numbers 0 and 7 both denote Sunday.
DayNames == <<"MON", "TUE", "WED", "THU", "FRI", "SAT", "SUN">>

\* the place of a token in the week, Monday first; 0 for no weekday
PlaceInWeek(token) ==
    IF \E k \in 1..7 : DayNames[k] = token THEN CHOOSE k \in 1..7 : DayNames[k] = token
    ELSE IF token = "fri" THEN 5
    ELSE IF token \in {"0", "7"} THEN 7
    ELSE IF \E k \in 1..6 : ToString(k) = token
         THEN CHOOSE k \in 1..6 : ToString(k) = token
    ELSE 0

RangeAsked ==
    /\ Answered
    /\ Len(cron_expression) = 6
    /\ Len(cron_expression[5]) = 1
    /\ Len(cron_expression[5][1]) = 2
    /\ PlaceInWeek(cron_expression[5][1][1]) # 0
    /\ PlaceInWeek(cron_expression[5][1][2]) # 0

C21_RangeAllowsExactly ==
    /\ RangeAsked
       => LET start == PlaceInWeek(cron_expression[5][1][1])
              end == PlaceInWeek(cron_expression[5][1][2])
              allowed == next_scheduled.schedule.allowed_days
          IN  /\ next_scheduled.schedule.error = "none"
              /\ allowed \subseteq 0..6
              /\ \A place \in 1..7 :
                    (place - 1) \in allowed
                    <=> IF start <= end THEN start <= place /\ place <= end
                        ELSE place >= start \/ place <= end
    /\ Answered /\ cron_expression[5] = << <<"FRI", "MON">> >>
       => next_scheduled.schedule.allowed_days = {4, 5, 6, 0}
    /\ Answered /\ cron_expression[5] \in {<< <<"0">> >>, << <<"7">> >>, << <<"SUN">> >>}
       => next_scheduled.schedule.allowed_days = {6}

\* a range that wraps around the end of the week, given by numbers
C21_Witness ==
    /\ Answered
    /\ cron_expression[5] = << <<"6", "1">> >>
    /\ next_scheduled.schedule.allowed_days = {5, 6, 0}

\* C22: instance_matches_schedule(tags, requested) is true for requested
\* "all" whatever the tags; for a schedule tag that is absent, empty or
\* without a non-empty token it is true exactly for requested "default";
\* otherwise it is true exactly when the trimmed, lowercased tokens of the
\* tag contain "all" or the requested name.
TagTokens(text) ==
    CASE text \in {"peak", " Peak "} -> {"peak"}
      [] text = "default" -> {"default"}
      [] text = "all" -> {"all"}
      [] text = "peak,off-hours" -> {"peak", "off-hours"}
      [] text = "Night , ALL" -> {"night", "all"}
      [] text = "night,,Default" -> {"night", "default"}
      [] OTHER -> {}

C22_MatchesSchedule ==
    schedule_match.pc = "returned"
    => LET requested == schedule_match.schedule_name
           tokens == TagTokens(schedule_match.tags.sched)
       IN  schedule_match.result
           <=> \/ requested = "all"
               \/ tokens = {} /\ requested = "default"
               \/ tokens # {} /\ ("all" \in tokens \/ requested \in tokens)

\* a tagged instance without the token "default" is asked for "default"
C22_Witness ==
    /\ schedule_match.pc = "returned"
    /\ schedule_match.tags.sched = "peak,off-hours"
    /\ schedule_match.schedule_name = "default"
    /\ ~schedule_match.result

\* C23: a task past the no-op checks issues stop only when the enumerated
\* state is not stopped, then waits for stopped, modifies the type, waits
\* for the type, starts and waits for running, each step entered only from
\* the success of the one before it; the type changes only by the modify
\* call and the state only by the stop and start calls; after a failure the
\* task issues nothing more for its instance.
Enters(i, pc) == task[i].pc # pc /\ task'[i].pc = pc

C23_SequenceOrdered ==
    [][\A i \in Instances :
        /\ Enters(i, "stop")
           => task[i].pc \in {"pending", "savings"} /\ snap[i].state # "stopped"
        /\ Enters(i, "waitstopped") => task[i].pc = "stop" /\ istate'[i] = "stopped"
        /\ Enters(i, "modify")
           => \/ task[i].pc = "waitstopped"
              \/ task[i].pc \in {"pending", "savings"} /\ snap[i].state = "stopped"
        /\ Enters(i, "waittype") => task[i].pc = "modify"
        /\ Enters(i, "start") => task[i].pc = "waittype"
        /\ Enters(i, "waitrunning") => task[i].pc = "start"
        /\ itype'[i] # itype[i]
           => task[i].pc = "modify" /\ task'[i].pc = "waittype"
        /\ istate'[i] # istate[i]
           => \/ task[i].pc = "stop" /\ istate'[i] = "stopped"
              \/ task[i].pc = "start" /\ istate'[i] = "running"
        /\ task[i].pc = "raised"
           => /\ task'[i].pc \in {"raised"} \cup QueuedPcs
              /\ itype'[i] = itype[i] /\ istate'[i] = istate[i] /\ itags'[i] = itags[i]
      ]_vars

\* the type confirmation failed: the instance is left stopped at the new
\* type and is not started
C23_Witness ==
    /\ task["i-1"].pc = "raised"
    /\ event.action = "scaledown"
    /\ snap["i-1"].state = "running" /\ snap["i-1"].current_type = "m5.large"
    /\ istate["i-1"] = "stopped" /\ itype["i-1"] = DEFAULT_DOWNSIZE_TYPE

\* C24: whenever a scale-down task has stopped or modified its instance,
\* the instance's PreferredInstanceType tag is set; a task whose write of
\* that tag failed has left the state and the type of the instance as they
\* were enumerated.
ScaleDownTask(i) == event.action = "scaledown" /\ task[i].pc \notin QueuedPcs

C24_PreferredTagFirst ==
    /\ [](\A i \in Instances :
            /\ ScaleDownTask(i)
               /\ \/ task[i].pc \in {"stop", "waitstopped", "modify", "waittype",
                                     "start", "waitrunning", "done_ok"}
                  \/ itype[i] # snap[i].current_type
                  \/ istate[i] # snap[i].state
               => PreferredType(itags[i]) # ""
            /\ ScaleDownTask(i) /\ task[i].pc = "raised" /\ PreferredType(itags[i]) = ""
               => itype[i] = snap[i].current_type /\ istate[i] = snap[i].state)
    /\ [][\A i \in Instances :
            /\ event.action = "scaledown"
               /\ (itype'[i] # itype[i] \/ istate'[i] # istate[i])
               => PreferredType(itags[i]) # ""
            /\ task[i].pc = "tagpref" /\ task'[i].pc = "raised"
               => itype'[i] = itype[i] /\ istate'[i] = istate[i] /\ itags'[i] = itags[i]
         ]_vars

\* the task wrote the tag and then stopped the instance
C24_Witness ==
    /\ event.action = "scaledown"
    /\ task["i-1"].pc = "waitstopped"
    /\ snap["i-1"].tags.pref = NoTag
    /\ itags["i-1"].pref = snap["i-1"].current_type
    /\ istate["i-1"] = "stopped"

\* C25: every scale-down record collected for the run summary belongs to an
\* instance whose task completed the downsize and whose last-scale-down
\* timestamp tag and hourly-savings tag were written with the values of the
\* record; no record is collected for a task whose savings tags were not
\* written.
C25_RecordOnlyWithTags ==
    \A r \in savings_records :
        /\ task[r.instance_id].pc = "done_ok"
        /\ task[r.instance_id].pricing_error = "none"
        /\ itags[r.instance_id].down = r.scale_down_timestamp
        /\ itags[r.instance_id].hourly = FormatHourly(r.hourly_savings)

\* C26: in scale-up the actual-savings snapshot is taken and the
\* last-scale-up tag written only by a task past the running confirmation,
\* its instance running at the preferred type; a scale-up task that failed
\* returns no actual-savings record and has left the last-scale-up tag as it
\* was enumerated; only records of tasks that returned are collected.
Restored(i) ==
    /\ event.action = "scaleup"
    /\ task[i].pc = "snapshot"
    /\ istate[i] = "running"
    /\ itype[i] = PreferredType(snap[i].tags)

C26_SnapshotAfterRestore ==
    /\ [](\A i \in Instances :
            /\ event.action = "scaleup" /\ task[i].pc \in {"raised", "done_noop"}
               => task[i].actual = {} /\ itags[i].up = snap[i].tags.up
            /\ \A r \in actual_savings_records :
                  task[r.instance_id].pc = "done_ok" /\ r \in task[r.instance_id].actual)
    /\ [][\A i \in Instances :
            /\ Enters(i, "snapshot") => task[i].pc = "waitrunning"
            /\ itags'[i].up # itags[i].up => Restored(i)
            /\ task'[i].actual # {} /\ task[i].actual = {}
               => /\ Restored(i)
                  /\ \A r \in task'[i].actual : itags'[i].up = r.scale_up_timestamp
         ]_vars

\* a restore whose record was returned and collected
C26_Witness ==
    /\ event.action = "scaleup"
    /\ task["i-1"].pc = "done_ok"
    /\ actual_savings_records # {}
    /\ itags["i-1"].up # snap["i-1"].tags.up
    /\ itype["i-1"] = "m5.large" /\ istate["i-1"] = "running"

\* C27: a task returns not-processed in scale-down when the enumerated type
\* is the downsize type, and in scale-up when the preferred-type tag is
\* absent, empty or equal to the enumerated type; a task that returned
\* not-processed has written no tag, has not stopped, modified or started
\* its instance, and returns no savings and no actual-savings record.
ListedNoOp(i) ==
    IF event.action = "scaledown" THEN snap[i].current_type = DEFAULT_DOWNSIZE_TYPE
    ELSE \/ snap[i].tags.pref \in {NoTag, ""}
         \/ snap[i].tags.pref = snap[i].current_type

C27_NoOpChangesNothing ==
    /\ [](\A i \in Instances :
            /\ task[i].pc \notin QueuedPcs /\ ListedNoOp(i) => task[i].pc = "done_noop"
            /\ task[i].pc = "done_noop"
               => /\ itype[i] = snap[i].current_type
                  /\ istate[i] = snap[i].state
                  /\ itags[i] = snap[i].tags
                  /\ task[i].savings = {} /\ task[i].actual = {}
                  /\ \A r \in savings_records \cup actual_savings_records :
                        r.instance_id # i)
    /\ [][\A i \in Instances :
            task'[i].pc = "done_noop"
            => itype'[i] = itype[i] /\ istate'[i] = istate[i] /\ itags'[i] = itags[i]
         ]_vars

\* a scale-up finds the preferred-type tag equal to the current type
C27_Witness ==
    /\ event.action = "scaleup"
    /\ task["i-1"].pc = "done_noop"
    /\ snap["i-1"].tags.pref = snap["i-1"].current_type

\* C28: whenever a scale-down task has returned processed, leaving its
\* instance at the downsize type, the last-scale-down timestamp tag of the
\* instance is the run-start timestamp of that invocation.
C28_BasisIsThisScaleDown ==
    \A i \in Instances :
        /\ event.action = "scaledown"
        /\ task[i].pc = "done_ok"
        /\ itype[i] = DEFAULT_DOWNSIZE_TYPE
        => itags[i].down = FormatUtc(run_start_time)

\* C29: when a scale-up invocation in which no task failed has returned,
\* every instance it matched whose preferred-type tag is not empty is
\* running at its preferred type.
C29_RestoreComplete ==
    /\ hpc = "returned"
    /\ event.action = "scaleup"
    /\ \A i \in Instances : task[i].pc # "raised"
    => \A i \in SeqToSet(instances_to_process) :
          PreferredType(snap[i].tags) # ""
          => itype[i] = PreferredType(snap[i].tags) /\ istate[i] = "running"

\* C30: with fail-fast enabled, after a task failure has been collected the
\* other tasks of the batch are not cancelled: a task that is running can
\* take its next step, a queued task is started as soon as a worker is
\* free, no task is withdrawn, and the failure leaves the invocation only
\* when every task of the batch has returned or raised.
C30_NoCancellation ==
    /\ [](hpc = "raised" /\ result.error = "task_failed"
          => \A i \in SeqToSet(batch) : task[i].pc \in FinalPcs)
    /\ [](hpc = "abort"
          => \A i \in SeqToSet(batch) :
                /\ i \in Running => ENABLED TaskStep(i, BatchRateOutcomes)
                /\ HeadOfQueue(i) /\ WorkerFree(GetConcurrencyLimit(envMaxConcurrent))
                   => ENABLED TaskBegin(i))
    /\ [][hpc = "abort"
          => \A i \in SeqToSet(batch) :
                task[i].pc \notin FinalPcs
                => hpc' = "abort" /\ task'[i].pc # "unsubmitted"
         ]_vars

\* the failure has left the invocation; a task of the failed batch that was
\* never collected has downsized its instance
C30_Witness ==
    /\ FAIL_FAST /\ hpc = "raised" /\ result.error = "task_failed"
    /\ \E i \in SeqToSet(batch) :
          /\ i \notin collected
          /\ task[i].pc = "done_ok"
          /\ itype[i] # snap[i].current_type

\* C31: in an invocation that enumerated the fleet no instance id is queued
\* twice, whatever the enumeration repeats, so no batch holds an id twice;
\* the skipped count is the number of distinct enumerated instances that the
\* schedule filter rejected, and queued plus skipped is the number of
\* distinct enumerated ids.
Enumerated ==
    \/ hpc \in {"batch", "abort"}
    \/ hpc = "returned" /\ result.error = ""
    \/ hpc = "raised" /\ result.error \in {"task_failed", "discount_percent"}

FilteredOut ==
    {i \in SeqToSet(reservations) :
        ~InstanceMatchesSchedule(snap[i].tags, NormalizeScheduleName(event.schedule))}

C31_OneTaskPerInstance ==
    Enumerated
    => /\ \A k, m \in 1..Len(instances_to_process) :
             k # m => instances_to_process[k] # instances_to_process[m]
       /\ \A k, m \in 1..Len(batch) : k # m => batch[k] # batch[m]
       /\ skipped_due_to_schedule = Cardinality(FilteredOut)
       /\ Len(instances_to_process) + skipped_due_to_schedule
          = Cardinality(SeqToSet(reservations))

\* the id enumerated twice is filtered out once; one instance is queued
C31_Witness ==
    /\ hpc = "batch"
    /\ reservations = <<"i-1", "i-2", "i-1", "i-3">>
    /\ instances_to_process = <<"i-3">>
    /\ skipped_due_to_schedule = 2

\* the first occurrence of each element of a sequence, in order
Distinct(seq) ==
    LET keep == {k \in DOMAIN seq : \A j \in 1..(k - 1) : seq[j] # seq[k]}
    IN  [n \in 1..Cardinality(keep) |->
            seq[CHOOSE k \in keep : Cardinality({j \in keep : j < k}) = n - 1]]

\* the order of filter sets the lookup is expected to query for a profile
ExpectedVariants(pricing_filters) ==
    LET base == BuildFilters(pricing_filters)
        relaxed == IF base.licenseModel = "License Included"
                   THEN <<[base EXCEPT !.licenseModel = "No License required"]>>
                   ELSE <<>>
    IN  Distinct(<<base>> \o relaxed
                 \o <<[base EXCEPT !.licenseModel = ""],
                      [base EXCEPT !.preInstalledSw = ""],
                      [base EXCEPT !.licenseModel = "", !.preInstalledSw = ""]>>)

IsPrefix(s, t) == Len(s) <= Len(t) /\ \A k \in DOMAIN s : s[k] = t[k]

\* the answers the catalog can give to the k-th filter set a lookup queried
Answers(i, k) ==
    GetProducts(catalog, RateType(i, rate[i].call), rate[i].attempted[k])

\* the failed lookup leaves the cache as it was
FailureWritesNothing ==
    \A i \in Instances :
        rate[i].pc # "raised" /\ rate'[i].pc = "raised" => PRICE_CACHE' = PRICE_CACHE

\* the queries follow the expected order, none repeated, and the lookup
\* goes on past the k-th filter set only when Unmatched(i, k), stops with a
\* price when ~Unmatched(i, last), and fails only after all were Unmatched
VariantWalk(Unmatched(_, _)) ==
    \A i \in Instances :
        LET attempted == rate[i].attempted
            expected == ExpectedVariants(iprofile[i])
        IN  /\ IsPrefix(attempted, expected)
            /\ \A j, k \in DOMAIN attempted : j # k => attempted[j] # attempted[k]
            /\ rate[i].pc = "query"
               => /\ Len(attempted) = rate[i].k - 1
                  /\ \A k \in DOMAIN attempted : Unmatched(i, k)
            /\ rate[i].pc = "store"
               => /\ attempted # <<>>
                  /\ ~Unmatched(i, Len(attempted))
                  /\ \A k \in 1..(Len(attempted) - 1) : Unmatched(i, k)
            /\ rate[i].pc = "raised" /\ rate[i].error = "ValueError"
               => /\ attempted = expected
                  /\ \A k \in DOMAIN attempted : Unmatched(i, k)

NoEntry(i, k) == Answers(i, k) = {}

NoPricedEntry(i, k) == None \in TryFilters(Answers(i, k))

\* C32 as stated: on a cache miss with a known region the lookup queries the
\* filter sets in the order base, license relaxed (only from "License
\* Included"), license removed, preinstalled software removed, both
\* removed, never the same set twice; it stops at the first set for which
\* the catalog returns a non-empty entry, and fails with the not-found
\* error, the cache untouched, only after every set returned no entry.
C32_StopsAtFirstEntry == VariantWalk(NoEntry)

\* C32 amended: the same order without repeats; the lookup stops at the
\* first filter set whose returned entry carries an on-demand price, an
\* entry without one counting as no match, and it fails with the not-found
\* error, the cache untouched, only after every set gave no entry or an
\* entry without a price.
C32_StopsAtFirstPricedEntry ==
    /\ [](RegionKnown => VariantWalk(NoPricedEntry))
    /\ [][FailureWritesNothing]_vars

\* a Windows "License Included" lookup that went on to the relaxed licence
\* after the catalog answered the full filter set with an unpriced entry
C32_Witness ==
    \E i \in Instances :
        /\ RegionKnown
        /\ catalog = UntermedCatalog
        /\ iprofile[i] = WindowsFilters
        /\ rate[i].pc = "store"
        /\ Len(rate[i].attempted) = 2
        /\ rate[i].attempted[1].licenseModel = "License Included"
        /\ rate[i].attempted[2].licenseModel = "No License required"
        /\ rate[i].price # None

PollEnded == poll.pc \in {"start", "raised"}

\* the poll returns exactly when a describe reported the desired type
ReturnsOnDesiredType ==
    (poll.last = "desired") <=> (poll.pc \in {"returned", "start"})

\* the task starts the instance only from a confirmation that returned
StartsOnlyConfirmed ==
    /\ poll.pc = "raised" => ~poll.started
    /\ poll.started => poll.last = "desired"

StartStep == ~poll.started /\ poll'.started => poll.pc = "returned"

\* C33 as stated: the type-confirmation poll always terminates; it returns
\* as soon as a poll reports the desired type, and otherwise it fails with
\* the confirmation-timeout error once the deadline has passed; no wait is
\* longer than the remaining budget; after a failure the task never starts
\* the instance.
C33_TimeoutOrConfirmed ==
    /\ [](/\ ReturnsOnDesiredType
          /\ StartsOnlyConfirmed
          /\ poll.pc = "raised"
             => poll.error = "TimeoutError" /\ poll.clock >= poll.deadline
          /\ poll.slept # None => poll.slept <= poll.remaining)
    /\ [][StartStep]_vars
    /\ <>PollEnded

\* C33 amended: the poll always terminates, after at most timeout_seconds
\* describe calls; it returns as soon as a describe call begun before the
\* deadline reports the desired type; it fails with the provider's error
\* when a describe call fails, and otherwise with the confirmation-timeout
\* error once the deadline has passed; each wait is
\* min(interval, max(remaining, 1s)), so the final wait is cut to the
\* remaining budget but never below one second; after a timeout or a
\* provider error the task never starts the instance.
C33_PollTerminates ==
    /\ [](/\ ReturnsOnDesiredType
          /\ StartsOnlyConfirmed
          /\ poll.pc = "raised"
             => \/ /\ poll.error = "TimeoutError"
                   /\ poll.clock >= poll.deadline
                   /\ poll.last \in {"none", "other"}
                \/ poll.error = "ClientError" /\ poll.last = "error"
          /\ poll.pc = "describe" => poll.clock < poll.deadline
          /\ poll.polls <= poll.timeout_seconds
          /\ poll.slept # None
             => /\ poll.slept <= Ticks(poll.poll_interval)
                /\ poll.slept <= Max(poll.remaining, Ticks(1))
                /\ poll.slept >= Min(poll.remaining, Ticks(poll.poll_interval)))
    /\ [][StartStep]_vars
    /\ <>PollEnded

\* a confirmation that timed out after a last wait of one second, longer
\* than the half second that was left, and did not start the instance
C33_Witness ==
    /\ poll.pc = "raised"
    /\ poll.error = "TimeoutError"
    /\ poll.polls >= 2
    /\ poll.slept = Ticks(1)
    /\ poll.remaining < Ticks(1)
    /\ poll.clock > poll.deadline
    /\ ~poll.started

\* a field that is one fixed number of lo..hi
FixedIn(text, lo, hi) == \E n \in lo..hi : ToString(n) = text

\* the expressions the parser has to reject, given the day-of-month texts
\* it takes
Unsupported(parts, day_of_month_texts) ==
    \/ Len(parts) # 6
    \/ ~FixedIn(parts[1], 0, 59)
    \/ ~FixedIn(parts[2], 0, 23)
    \/ parts[3] \notin day_of_month_texts
    \/ parts[4] # "*"
    \/ parts[6] # "*"

ParseFailed == next_scheduled.pc = "raised" /\ next_scheduled.schedule.error # "none"

\* C34 as stated: the parse fails for every expression whose field count is
\* not 6, whose minute or hour is a wildcard or outside 0..59 / 0..23, or
\* whose day-of-month, month or year is anything other than exactly "*".
C34_OnlyStar ==
    next_scheduled.pc # "call"
    => (Unsupported(cron_expression, {"*"}) => ParseFailed)

\* C34 amended: the parse fails for every expression whose field count is
\* not 6, whose minute or hour is a wildcard, not a number or outside
\* 0..59 / 0..23, whose day-of-month is anything other than "*" or "?", or
\* whose month or year is anything other than "*"; every other failure is
\* one of the day-of-week field, so the parse succeeds only for a fixed
\* minute and hour with day-of-month "*" or "?" and month and year "*".
C34_StarOrQuestionMark ==
    next_scheduled.pc # "call"
    => /\ Unsupported(cron_expression, {"*", "?"}) => ParseFailed
       /\ ParseFailed /\ ~Unsupported(cron_expression, {"*", "?"})
          => next_scheduled.schedule.error = "day-of-week"
       /\ ~ParseFailed
          => /\ next_scheduled.schedule.minute \in 0..59
             /\ next_scheduled.schedule.hour \in 0..23
             /\ ToString(next_scheduled.schedule.minute) = cron_expression[1]
             /\ ToString(next_scheduled.schedule.hour) = cron_expression[2]

\* the expression 0 18 ? * * * was parsed to minute 0 and hour 18
C34_Witness ==
    /\ next_scheduled.pc = "returned"
    /\ cron_expression[3] = "?"
    /\ next_scheduled.schedule.error = "none"
    /\ next_scheduled.schedule.minute = 0
    /\ next_scheduled.schedule.hour = 18

\* a lookback setting that is a whole number outside 1..90
LookbackOutOfRange(raw_lookback) ==
    IsPercent(raw_lookback)
    /\ (ParsePercent(raw_lookback) < 1 \/ ParsePercent(raw_lookback) > 90)

\* the report of a query made with the lookback clamped into 1..90
ClampedReport(cov) ==
    [cov EXCEPT !.lookback = ToString(Max(1, Min(90, ParsePercent(cov.lookback))))]

\* C35: in coverage mode a lookback setting outside 1..90 days is clamped
\* into 1..90 and the coverage query is still made: when Cost Explorer
\* answers it, the coverage computation stores the factor of that answer
\* under the label "coverage".
C35_LookbackClamped ==
    \A t \in Callers :
        (/\ est[t].pc = "coverage"
         /\ LookbackOutOfRange(coverageData.lookback)
         /\ GetCoverageDiscountFactor(ClampedReport(coverageData)) # None)
        => ENABLED (/\ FactorCoverage(t, FALSE)
                    /\ SAVINGS_PLAN_FACTOR_SOURCE' = "coverage"
                    /\ SAVINGS_PLAN_FACTOR'
                          = GetCoverageDiscountFactor(ClampedReport(coverageData)))
====
